---- MODULE Spec2Model ----
(***************************************************************************)
(* Blender screen / area / region persistence (blenkernel screen.cc):      *)
(* the space-type registry, the screen vertex / edge utilities, and the    *)
(* blend-file write, read-data and read-after-liblink stages.              *)
(*                                                                         *)
(* Pointers are integers, NULL is 0.  Lists (ListBase) are sequences of    *)
(* the linked nodes in list order.                                         *)
(***************************************************************************)
EXTENDS Integers, Sequences, FiniteSets, TLC

VARIABLES
  spacetypes,   \* static ListBase spacetypes: addresses of the linked SpaceType nodes
  stHeap,       \* SpaceType allocations: address -> [status, spaceid, regiontypes]
  lastReg,      \* the last BKE_spacetype_register call: [st, spaceid, dup]
  screen,       \* the bScreen / ScrAreaMap in memory
  found,        \* last BKE_screen_find_edge call: [a, b, ab, ba]
  file,         \* the written .blend data of the screen: [map, present]
  orig,         \* the screen as it was when it was written (or first versioned)
  heap,         \* addresses allocated by the read stage and not freed
  freed,        \* addresses freed since the read stage started
  loaded,       \* addresses the read stage allocated (blocks it looked up)
  readOk,       \* return value of BKE_screen_blend_read_data
  vorder,       \* where the allocator put the vertex blocks on read: old -> new rank
  trace,        \* the steps of the load in the order they ran: [op, n]
  wm,           \* the window manager: windows, g_software_cursor, draw pass
  play,         \* the animation player: picsbase, g_frame_cache, ps.picture
  pc            \* position in the save / load pipeline

regVars == <<spacetypes, stHeap, lastReg>>
scrVars == <<screen, found>>
ioVars == <<file, orig, heap, freed, loaded, readOk, vorder, trace>>
uiVars == <<wm, play>>
vars == <<spacetypes, stHeap, lastReg, screen, found, file, orig, heap, freed, loaded, readOk, vorder, trace, wm, play, pc>>

-----------------------------------------------------------------------------
(* Program constants *)

NULL == 0
SPACE_EMPTY == 0
SPACE_VIEW3D == 1
SPACE_INFO == 7
RGN_TYPE_WINDOW == 0
RGN_TYPE_HEADER == 1
RGN_FLAG_TEMP_REGIONDATA == 8

(* Bounds *)
MaxSt == 4          \* SpaceType allocations in the registry specification
MaxAreas == 2       \* areas of a screen
MaxRegions == 2     \* regions in the region list of an area

SpaceIds == {SPACE_VIEW3D, SPACE_INFO}
RegionIds == {RGN_TYPE_WINDOW, RGN_TYPE_HEADER}

-----------------------------------------------------------------------------
(* Sequence helpers *)

Range(s) == {s[i] : i \in 1..Len(s)}

RECURSIVE SeqMap(_, _)
SeqMap(Op(_), s) == IF s = <<>> THEN <<>> ELSE <<Op(Head(s))>> \o SeqMap(Op, Tail(s))

RECURSIVE SeqFilter(_, _)
SeqFilter(Test(_), s) ==
  IF s = <<>> THEN <<>>
  ELSE (IF Test(Head(s)) THEN <<Head(s)>> ELSE <<>>) \o SeqFilter(Test, Tail(s))

RECURSIVE SeqUnion(_)
SeqUnion(s) == IF s = <<>> THEN {} ELSE Head(s) \cup SeqUnion(Tail(s))

RECURSIVE SeqFlatMap(_, _)
SeqFlatMap(Op(_), s) == IF s = <<>> THEN <<>> ELSE Op(Head(s)) \o SeqFlatMap(Op, Tail(s))

Min(S) == CHOOSE x \in S : \A y \in S : x <= y

\* All sequences over S of length 0..n
SeqsUpTo(S, n) == UNION {[1..k -> S] : k \in 0..n}

-----------------------------------------------------------------------------
(* Space-type registry *)

StAddrs == 1..MaxSt

StUnalloc == [status |-> "unalloc", spaceid |-> SPACE_EMPTY, regiontypes |-> {}]

\* LISTBASE_FOREACH over spacetypes: the first linked node with that spaceid.
FirstMatch(list, hp, spaceid) ==
  LET hits == {i \in 1..Len(list) : hp[list[i]].spaceid = spaceid}
  IN IF hits = {} THEN NULL
     ELSE list[CHOOSE i \in hits : \A j \in hits : i <= j]

\* The walk of BKE_spacetype_from_id reads st->spaceid and st->next of every
\* node up to the match: it reads freed memory when a freed node is linked at
\* or before the match.
ReadsFreed(list, hp, spaceid) ==
  \E i \in 1..Len(list) :
    /\ hp[list[i]].status = "freed"
    /\ \A j \in 1..(i - 1) : hp[list[j]].spaceid # spaceid

\* BKE_spacetype_from_id: the set of values the call can return.  Reading a
\* freed node is undefined: any linked node or null may come back.
BKE_spacetype_from_id(spaceid) ==
  IF ReadsFreed(spacetypes, stHeap, spaceid)
  THEN Range(spacetypes) \cup {NULL}
  ELSE {FirstMatch(spacetypes, stHeap, spaceid)}

\* BKE_regiontype_from_id(st, regionid) != nullptr
BKE_regiontype_from_id(st, regionid) == regionid \in stHeap[st].regiontypes

\* spacetype_free(stype); MEM_freeN(stype): the node is freed, not unlinked.
spacetype_free(hp, stype) == [hp EXCEPT ![stype].status = "freed"]

\* BKE_spacetype_register(st): st is a fresh allocation of the caller.
SpacetypeRegister(st, spaceid, arts) ==
  /\ pc = "registry"
  /\ stHeap[st].status = "unalloc"
  /\ \E stype \in BKE_spacetype_from_id(spaceid) :
       LET hp1 == [stHeap EXCEPT ![st] = [status |-> "live", spaceid |-> spaceid,
                                           regiontypes |-> arts]]
           hp2 == IF stype # NULL THEN spacetype_free(hp1, stype) ELSE hp1
       IN /\ stHeap' = hp2
          /\ spacetypes' = Append(spacetypes, st)
          /\ lastReg' = [st |-> st, spaceid |-> spaceid, dup |-> stype # NULL]
  /\ UNCHANGED <<scrVars, ioVars, pc, uiVars>>

\* BKE_spacetypes_free: every linked node is freed and the list is emptied.
SpacetypesFree ==
  /\ pc = "registry"
  /\ spacetypes # <<>>
  /\ stHeap' = [a \in StAddrs |->
                  IF a \in Range(spacetypes) THEN [stHeap[a] EXCEPT !.status = "freed"]
                  ELSE stHeap[a]]
  /\ spacetypes' = <<>>
  /\ lastReg' = [st |-> NULL, spaceid |-> SPACE_EMPTY, dup |-> FALSE]
  /\ UNCHANGED <<scrVars, ioVars, pc, uiVars>>

\* A bScreen with empty lists and null run-time pointers.
EmptyScreen ==
  [vertbase |-> <<>>, edgebase |-> <<>>, areabase |-> <<>>,
   regionbase |-> 0, context |-> NULL, active_region |-> NULL,
   animtimer |-> NULL, tool_tip |-> NULL, scrubbing |-> 0]
NoFind == [a |-> NULL, b |-> NULL, ab |-> NULL, ba |-> NULL]
NoFile == [map |-> EmptyScreen, blocks |-> <<>>, present |-> {}]

IdleScreen == screen = EmptyScreen /\ found = NoFind
NoWm == [windows |-> <<>>]
NoPlay == [picsbase |-> <<>>]
IdleFile ==
  /\ file = NoFile /\ orig = EmptyScreen
  /\ heap = {} /\ freed = {} /\ loaded = {} /\ readOk = TRUE /\ vorder = <<>>
  /\ trace = <<>>
IdleIo == IdleFile /\ wm = NoWm /\ play = NoPlay

InitRegistry ==
  /\ spacetypes = <<>>
  /\ stHeap = [a \in StAddrs |-> StUnalloc]
  /\ lastReg = [st |-> NULL, spaceid |-> SPACE_EMPTY, dup |-> FALSE]
  /\ IdleScreen /\ IdleIo
  /\ pc = "registry"

NextRegistry ==
  \/ \E st \in StAddrs, id \in SpaceIds, arts \in {{RGN_TYPE_WINDOW}, RegionIds} :
       SpacetypeRegister(st, id, arts)
  \/ SpacetypesFree

SpecRegistry == InitRegistry /\ [][NextRegistry]_vars

-----------------------------------------------------------------------------
(* Screen vertices and edges *)

\* BKE_screen_sort_scrvert(&v1, &v2): the pair with the lower address first.
SortNoSwap(v1, v2) == <<v1, v2>>
BKE_screen_sort_scrvert(v1, v2) == IF v1 > v2 THEN <<v2, v1>> ELSE <<v1, v2>>

\* BKE_screen_find_edge(screen, v1, v2): the first edge in list order whose
\* stored endpoints equal the sorted pair, or null.
BKE_screen_find_edge(scr, v1, v2) ==
  LET s == BKE_screen_sort_scrvert(v1, v2)
      hits == {i \in 1..Len(scr.edgebase) :
                 scr.edgebase[i].v1 = s[1] /\ scr.edgebase[i].v2 = s[2]}
  IN IF hits = {} THEN NULL
     ELSE scr.edgebase[CHOOSE i \in hits : \A j \in hits : i <= j].adr

MkVert(a, x, y) == [adr |-> a, x |-> x, y |-> y, flag |-> 0, newv |-> NULL]
MkEdge(a, v1, v2) == [adr |-> a, v1 |-> v1, v2 |-> v2, flag |-> 0]

\* Address of the i-th edge node, above every vertex address.
EdgeAdr(i) == 50 + i

MaxVerts == 3       \* vertices of a screen in the edge specification
MaxEdges == 2       \* edges of a screen in the edge specification

\* Vertex lists of the edge specification: MaxVerts vertices whose list order
\* is or is not their address order.
VertLists ==
  {[i \in 1..MaxVerts |-> MkVert(i, i, 0)],
   [i \in 1..MaxVerts |-> MkVert(MaxVerts + 1 - i, i, 0)]}

\* Edge lists in canonical order (v1 <= v2), duplicates allowed.
CanonicalPairs == {p \in (1..MaxVerts) \X (1..MaxVerts) : p[1] <= p[2]}
EdgeLists ==
  {[i \in 1..Len(ps) |-> MkEdge(EdgeAdr(i), ps[i][1], ps[i][2])] :
     ps \in SeqsUpTo(CanonicalPairs, MaxEdges)}

EdgesCanonical(scr) == \A i \in 1..Len(scr.edgebase) : scr.edgebase[i].v1 <= scr.edgebase[i].v2

FindEdge(a, b) ==
  /\ pc = "screen"
  /\ found' = [a |-> a, b |-> b,
               ab |-> BKE_screen_find_edge(screen, a, b),
               ba |-> BKE_screen_find_edge(screen, b, a)]
  /\ UNCHANGED <<regVars, screen, ioVars, pc, uiVars>>

InitScreen ==
  /\ spacetypes = <<>>
  /\ stHeap = [a \in StAddrs |-> StUnalloc]
  /\ lastReg = [st |-> NULL, spaceid |-> SPACE_EMPTY, dup |-> FALSE]
  /\ \E vl \in VertLists, el \in EdgeLists :
       screen = [EmptyScreen EXCEPT !.vertbase = vl, !.edgebase = el]
  /\ found = NoFind
  /\ IdleIo
  /\ pc = "screen"

NextScreen ==
  \E a \in 1..MaxVerts, b \in 1..MaxVerts : FindEdge(a, b)

SpecScreen == InitScreen /\ [][NextScreen]_vars

-----------------------------------------------------------------------------
(* Screens in memory: areas, space links, regions, panels *)

MaxSlRegions == 1   \* regions in the region list of an inactive space link

\* Address layout of the screens the model saves.  Vertices are 1..2(n+1);
\* only vertex addresses are ever compared by the code (BKE_screen_sort_scrvert).
AreaAdr(j) == 1000 * j
SlAdr(j, s) == AreaAdr(j) + 100 * s
RegionAdr(j, s, r) == AreaAdr(j) + 100 * s + 10 * r   \* s = 0: the area's own list
RegiondataAdr(rg) == rg + 1
PanelAdr(rg) == rg + 2
ChildPanelAdr(rg) == rg + 3
LocalvdAdr(rg) == rg + 6
ClipbbAdr(rg) == rg + 7

MkPanel(a, kids) ==
  [adr |-> a, runtime_flag |-> 1, activedata |-> 1, type |-> 1, drawname |-> 1,
   custom_data_ptr |-> 1, children |-> kids]

\* A region in use: its run-time fields are populated.  Header regions own a
\* panel with one child panel.
MkRegion(a, k) ==
  [adr |-> a, regiontype |-> k.rt,
   flag |-> IF k.temp THEN RGN_FLAG_TEMP_REGIONDATA ELSE 0,
   regiondata |-> IF k.rd THEN RegiondataAdr(a) ELSE NULL,
   localvd |-> NULL, clipbb |-> NULL,     \* of the RegionView3D at regiondata
   persp |-> IF k.rd THEN 1 ELSE 0,       \* of the RegionView3D at regiondata
   panels |-> IF k.rt = RGN_TYPE_HEADER
              THEN <<MkPanel(PanelAdr(a), <<MkPanel(ChildPanelAdr(a), <<>>)>>)>>
              ELSE <<>>,
   runtime |-> 1, type |-> 1, visible |-> 1, do_draw |-> 1, gizmo_map |-> 1,
   regiontimer |-> 1, draw_buffer |-> 1, headerstr |-> 1, handlers |-> 1,
   uiblocks |-> 1, panels_category |-> 1]

\* Region kinds: region type, RGN_FLAG_TEMP_REGIONDATA, regiondata set.
RegionKinds ==
  {[rt |-> RGN_TYPE_WINDOW, temp |-> FALSE, rd |-> TRUE],
   [rt |-> RGN_TYPE_WINDOW, temp |-> TRUE, rd |-> TRUE],
   [rt |-> RGN_TYPE_WINDOW, temp |-> FALSE, rd |-> FALSE],
   [rt |-> RGN_TYPE_HEADER, temp |-> FALSE, rd |-> FALSE],
   [rt |-> RGN_TYPE_HEADER, temp |-> FALSE, rd |-> TRUE]}

\* The window region of a 3D viewport in use always has its RegionView3D.
KindsFor(spacetype) ==
  IF spacetype = SPACE_VIEW3D
  THEN {k \in RegionKinds : k.rt = RGN_TYPE_WINDOW => k.rd}
  ELSE RegionKinds

MkRegions(j, s, kinds) == [r \in 1..Len(kinds) |-> MkRegion(RegionAdr(j, s, r), kinds[r])]

\* A space link in use; gridsubdiv and persp are the View3D's (persp stands
\* for the view settings persp, view, dist, ofs and viewquat).
MkSpaceLink(a, spacetype, regions) ==
  [adr |-> a, spacetype |-> spacetype, regionbase |-> regions,
   gridsubdiv |-> 10, persp |-> 1]

\* Vertices of a row of n areas: bottom b(i) and top t(i), i = 0..n.
VertB(i) == 2 * i + 1
VertT(i) == 2 * i + 2
NVerts(n) == 2 * (n + 1)

\* Area j of the row, showing sltypes[1], with inactive spaces sltypes[2..].
\* The regions of the active space live in area->regionbase; its own
\* sl->regionbase is empty.
MkArea(j, sltypes, kinds, slkinds) ==
  [adr |-> AreaAdr(j),
   v1 |-> VertB(j - 1), v2 |-> VertT(j - 1), v3 |-> VertT(j), v4 |-> VertB(j),
   spacetype |-> sltypes[1], butspacetype |-> SPACE_EMPTY, global |-> NULL,
   flag |-> 1,
   regionbase |-> MkRegions(j, 0, kinds),
   spacedata |-> [s \in 1..Len(sltypes) |->
                    MkSpaceLink(SlAdr(j, s), sltypes[s],
                                IF s = 1 THEN <<>> ELSE MkRegions(j, s, slkinds))],
   type |-> 1, runtime |-> 1, handlers |-> 1, actionzones |-> 1,
   region_active_win |-> 0]

SlTypeLists ==
  {<<t>> : t \in SpaceIds}
  \cup {sl \in {<<t, u>> : t \in SpaceIds, u \in SpaceIds} : sl[1] # sl[2]}

\* The empty region list, and the lists of MaxRegions regions that have one
\* kind in front and one kind behind it.
HeadTailLists(spacetype) ==
  {<<>>} \cup {[r \in 1..MaxRegions |-> IF r = 1 THEN k1 ELSE k2] :
                k1 \in KindsFor(spacetype), k2 \in KindsFor(spacetype)}

\* One area showing its only space, with every region list up to MaxRegions.
AreasOneSpace(j) ==
  UNION {{MkArea(j, <<t>>, rk, <<>>) : rk \in SeqsUpTo(KindsFor(t), MaxRegions)} :
         t \in SpaceIds}

\* The empty region list, and the lists of MaxSlRegions regions of one kind.
SlRegionLists(spacetype) ==
  {<<>>} \cup {[r \in 1..MaxSlRegions |-> k] : k \in KindsFor(spacetype)}

\* One area with an inactive space behind the active one; the inactive space
\* link keeps a region list of up to MaxSlRegions regions.
AreasTwoSpaces(j) ==
  UNION {{MkArea(j, sl, rk, sk) :
            rk \in HeadTailLists(sl[1]),
            sk \in SlRegionLists(sl[2])} :
         sl \in {x \in SlTypeLists : Len(x) = 2}}

\* The areas of a row of several: one space, at most one region.
RowProfiles ==
  {[t |-> t, rk |-> rk] :
     t \in SpaceIds,
     rk \in {<<>>,
             <<[rt |-> RGN_TYPE_WINDOW, temp |-> FALSE, rd |-> TRUE]>>,
             <<[rt |-> RGN_TYPE_HEADER, temp |-> FALSE, rd |-> FALSE]>>}}

\* Rows alternate between two profiles.
AreaRows(n) ==
  {[j \in 1..n |-> MkArea(j, <<f[2 - (j % 2)].t>>, f[2 - (j % 2)].rk, <<>>)] :
     f \in [1..2 -> RowProfiles]}

RowVerts(n) ==
  [v \in 1..NVerts(n) |-> MkVert(v, (v - 1) \div 2, (v - 1) % 2)]

\* Edges of the row in canonical order: the left side, then per area its
\* top, bottom and right side.
RowEdges(n) ==
  [e \in 1..(3 * n + 1) |->
     IF e = 1 THEN MkEdge(EdgeAdr(1), VertB(0), VertT(0))
     ELSE LET j == (e + 1) \div 3
              k == (e + 1) % 3
          IN IF k = 0 THEN MkEdge(EdgeAdr(e), VertT(j - 1), VertT(j))
             ELSE IF k = 1 THEN MkEdge(EdgeAdr(e), VertB(j - 1), VertB(j))
             ELSE MkEdge(EdgeAdr(e), VertB(j), VertT(j))]

MkScreen(areas) ==
  [vertbase |-> RowVerts(Len(areas)), edgebase |-> RowEdges(Len(areas)),
   areabase |-> areas,
   regionbase |-> 1, context |-> 1, active_region |-> 1,
   animtimer |-> 1, tool_tip |-> 1, scrubbing |-> 1]

LiveScreens ==
  {MkScreen(<<a>>) : a \in AreasOneSpace(1) \cup AreasTwoSpaces(1)}
  \cup UNION {{MkScreen(as) : as \in AreaRows(n)} : n \in 2..MaxAreas}

-----------------------------------------------------------------------------
(* Registry of the process that loads the file.  Registration is confined to *)
(* start-up and registers each space type once, so no freed node is linked   *)
(* while a file is read and BKE_spacetype_from_id has a single result.       *)

RegistryMenu ==
  {<<[spaceid |-> SPACE_VIEW3D, regiontypes |-> RegionIds],
     [spaceid |-> SPACE_INFO, regiontypes |-> RegionIds]>>,
   <<[spaceid |-> SPACE_VIEW3D, regiontypes |-> RegionIds]>>,
   <<[spaceid |-> SPACE_INFO, regiontypes |-> {RGN_TYPE_WINDOW}],
     [spaceid |-> SPACE_VIEW3D, regiontypes |-> {RGN_TYPE_HEADER}]>>,
   <<[spaceid |-> SPACE_INFO, regiontypes |-> RegionIds]>>}

SpaceTypeOf(spaceid) == CHOOSE st \in BKE_spacetype_from_id(spaceid) : TRUE

\* BKE_spacetype_exists(spaceid)
BKE_spacetype_exists(spaceid) == SpaceTypeOf(spaceid) # NULL

-----------------------------------------------------------------------------
(* Blend-file write *)

IsTemp(rg) == rg.flag = RGN_FLAG_TEMP_REGIONDATA

\* write_region: the ARegion struct, then the RegionView3D of a 3D viewport
\* window region with its localvd and clipbb, unless the region data is
\* temporary.
WriteRegionNoTempCheck(rg, spacetype) ==
  <<rg.adr>> \o
  (IF rg.regiondata # NULL
      /\ spacetype = SPACE_VIEW3D /\ rg.regiontype = RGN_TYPE_WINDOW
   THEN <<rg.regiondata>>
        \o (IF rg.localvd # NULL THEN <<rg.localvd>> ELSE <<>>)
        \o (IF rg.clipbb # NULL THEN <<rg.clipbb>> ELSE <<>>)
   ELSE <<>>)
write_region(rg, spacetype) ==
  <<rg.adr>> \o
  (IF rg.regiondata # NULL /\ ~IsTemp(rg)
      /\ spacetype = SPACE_VIEW3D /\ rg.regiontype = RGN_TYPE_WINDOW
   THEN <<rg.regiondata>>
        \o (IF rg.localvd # NULL THEN <<rg.localvd>> ELSE <<>>)
        \o (IF rg.clipbb # NULL THEN <<rg.clipbb>> ELSE <<>>)
   ELSE <<>>)

\* write_panel_list: each panel, then its children.
RECURSIVE write_panel_list(_)
write_panel_list(lb) ==
  SeqFlatMap(LAMBDA panel : <<panel.adr>> \o write_panel_list(panel.children), lb)

\* write_area with the space link written in front of its regions.
WriteAreaSpaceLinkFirst(area, known) ==
  SeqFlatMap(LAMBDA rg : write_region(rg, area.spacetype) \o write_panel_list(rg.panels),
             area.regionbase)
  \o SeqFlatMap(LAMBDA sl :
                  (IF sl.spacetype \in known THEN <<sl.adr>> ELSE <<>>)
                  \o SeqFlatMap(LAMBDA rg : write_region(rg, sl.spacetype), sl.regionbase),
                area.spacedata)

\* write_area: the regions of the area with their panels, then per space link
\* its regions and, when the writing build has the space type registered, the
\* space link itself (the space type's blend_write).  known: the space types
\* registered in the writing build.
write_area(area, known) ==
  SeqFlatMap(LAMBDA rg : write_region(rg, area.spacetype) \o write_panel_list(rg.panels),
             area.regionbase)
  \o SeqFlatMap(LAMBDA sl :
                  SeqFlatMap(LAMBDA rg : write_region(rg, sl.spacetype), sl.regionbase)
                  \o (IF sl.spacetype \in known THEN <<sl.adr>> ELSE <<>>),
                area.spacedata)

\* BKE_screen_area_map_blend_write: the addresses of the blocks in write order.
BKE_screen_area_map_blend_write(scr, known) ==
  SeqMap(LAMBDA v : v.adr, scr.vertbase)
  \o SeqMap(LAMBDA e : e.adr, scr.edgebase)
  \o SeqFlatMap(LAMBDA area :
                  <<area.adr>>
                  \o (IF area.global # NULL THEN <<area.global>> ELSE <<>>)
                  \o write_area(area, known),
                scr.areabase)

\* The ScrArea struct is written while butspacetype holds the space type.
WrittenMap(scr) ==
  [scr EXCEPT !.areabase = SeqMap(LAMBDA area : [area EXCEPT !.butspacetype = area.spacetype],
                                  scr.areabase)]

\* After the pass butspacetype is unset again.
AfterWrite(scr) ==
  [scr EXCEPT !.areabase = SeqMap(LAMBDA area : [area EXCEPT !.butspacetype = SPACE_EMPTY],
                                  scr.areabase)]

\* The space types registered in the process that loaded the file.
RegisteredIds == {id \in SpaceIds : BKE_spacetype_exists(id)}

\* A screen is saved by the build it was made in, where every space type it
\* shows is registered, or saved again by the build that loaded it.
Write ==
  /\ pc \in {"live", "linked"}
  /\ LET blocks == BKE_screen_area_map_blend_write(
                     screen, IF pc = "live" THEN SpaceIds ELSE RegisteredIds)
     IN file' = [map |-> WrittenMap(screen), blocks |-> blocks, present |-> Range(blocks)]
  /\ screen' = AfterWrite(screen)
  /\ pc' = IF pc = "live" THEN "written" ELSE "resaved"
  /\ UNCHANGED <<regVars, found, orig, heap, freed, loaded, readOk, vorder, trace, uiVars>>

\* Blocks whose loss the reader has to survive: vertices, region data and
\* space links.
Droppable(f) ==
  Range(SeqMap(LAMBDA v : v.adr, f.map.vertbase))
  \cup UNION {Range(SeqMap(LAMBDA sl : sl.adr, f.map.areabase[j].spacedata))
              \cup Range(SeqMap(LAMBDA rg : rg.regiondata, f.map.areabase[j].regionbase))
              \cup UNION {Range(SeqMap(LAMBDA rg : rg.regiondata,
                                       f.map.areabase[j].spacedata[s].regionbase)) :
                          s \in 1..Len(f.map.areabase[j].spacedata)} :
              j \in 1..Len(f.map.areabase)}

\* The file reaches the reader with one block missing.
Corrupt(b) ==
  /\ pc = "written"
  /\ b \in Droppable(file) \cap file.present
  /\ file' = [file EXCEPT !.present = @ \ {b}]
  /\ pc' = "corrupt"
  /\ UNCHANGED <<regVars, scrVars, orig, heap, freed, loaded, readOk, vorder, trace, uiVars>>

-----------------------------------------------------------------------------
(* Blend-file read: struct stage and address patching *)

\* Where a block of the file is allocated on read.  The allocator decides the
\* order of the vertex blocks (ord: old vertex address -> rank).
NewAddrOf(ord, old) ==
  IF old \in DOMAIN ord THEN 10000 + ord[old] ELSE 10000 + old

IsNew(a) == a > 10000

\* BLO_read_data_address: the new address of the block, null when the file
\* holds no block for the old address.
newdataadr(f, ord, old) ==
  IF old # NULL /\ old \in f.present THEN NewAddrOf(ord, old) ELSE NULL

\* BLO_read_list: the nodes up to the first one whose block is missing, at
\* their new addresses (next of the last node resolves to null).
BLO_read_list(f, ord, lb) ==
  LET miss == {i \in 1..Len(lb) : lb[i].adr \notin f.present}
      n == IF miss = {} THEN Len(lb) ELSE Min(miss) - 1
  IN [i \in 1..n |-> [lb[i] EXCEPT !.adr = NewAddrOf(ord, @)]]

\* direct_link_panel_list
RECURSIVE direct_link_panel_list(_, _, _)
direct_link_panel_list(f, ord, lb) ==
  SeqMap(LAMBDA panel :
           [panel EXCEPT !.runtime_flag = 0, !.activedata = NULL, !.type = NULL,
                         !.drawname = NULL, !.custom_data_ptr = NULL,
                         !.children = direct_link_panel_list(f, ord, @)],
         BLO_read_list(f, ord, lb))

\* The regiondata branch of direct_link_region.
LinkRegiondataNoEmptyCheck(f, ord, rg, spacetype) ==
  IF IsTemp(rg) THEN NULL
  ELSE IF spacetype = SPACE_VIEW3D /\ rg.regiontype = RGN_TYPE_WINDOW
       THEN newdataadr(f, ord, rg.regiondata)
       ELSE rg.regiondata
LinkRegiondata(f, ord, rg, spacetype) ==
  IF spacetype = SPACE_EMPTY THEN NULL
  ELSE IF IsTemp(rg) THEN NULL
  ELSE IF spacetype = SPACE_VIEW3D /\ rg.regiontype = RGN_TYPE_WINDOW
       THEN newdataadr(f, ord, rg.regiondata)
       ELSE rg.regiondata

\* rv3d->localvd and rv3d->clipbb are resolved where the RegionView3D is read;
\* a region without a RegionView3D that was read has neither.
LinkRv3dField(f, ord, rg, spacetype, old) ==
  IF spacetype # SPACE_EMPTY /\ ~IsTemp(rg)
     /\ spacetype = SPACE_VIEW3D /\ rg.regiontype = RGN_TYPE_WINDOW
     /\ newdataadr(f, ord, rg.regiondata) # NULL
  THEN newdataadr(f, ord, old) ELSE NULL

\* direct_link_region writes through rv3d without a null check.
RegionNullDeref(f, ord, rg, spacetype) ==
  /\ spacetype # SPACE_EMPTY /\ ~IsTemp(rg)
  /\ spacetype = SPACE_VIEW3D /\ rg.regiontype = RGN_TYPE_WINDOW
  /\ newdataadr(f, ord, rg.regiondata) = NULL

\* direct_link_region
RegionKeepRuntime(f, ord, rg, spacetype) ==
  [rg EXCEPT !.panels = direct_link_panel_list(f, ord, @),
             !.regiondata = LinkRegiondata(f, ord, rg, spacetype),
             !.localvd = LinkRv3dField(f, ord, rg, spacetype, @),
             !.clipbb = LinkRv3dField(f, ord, rg, spacetype, @)]
direct_link_region(f, ord, rg, spacetype) ==
  [rg EXCEPT !.runtime = 0,
             !.panels = direct_link_panel_list(f, ord, @),
             !.regiondata = LinkRegiondata(f, ord, rg, spacetype),
             !.localvd = LinkRv3dField(f, ord, rg, spacetype, @),
             !.clipbb = LinkRv3dField(f, ord, rg, spacetype, @),
             !.panels_category = 0, !.handlers = 0, !.uiblocks = 0,
             !.headerstr = NULL, !.visible = 0, !.type = NULL, !.do_draw = 0,
             !.gizmo_map = NULL, !.regiontimer = NULL, !.draw_buffer = NULL]

\* MEM_callocN of the "region v3d patch": the first of the region's patch
\* addresses that is not in use.
PatchAdr(rg, used) == Min({rg.adr + 5, rg.adr + 8, rg.adr + 9} \ used)

\* BKE_screen_view3d_do_versions_250(v3d, regions): a window region without
\* region data gets a fresh RegionView3D with the view settings of v3d, and a
\* zero gridsubdiv becomes 10.  [v3d, regions].
DoVersionsAllWindows(v3d, regions, used) ==
  [v3d |-> [v3d EXCEPT !.gridsubdiv = IF @ = 0 THEN 10 ELSE @],
   regions |-> SeqMap(LAMBDA rg :
                        IF rg.regiontype = RGN_TYPE_WINDOW
                        THEN [rg EXCEPT !.regiondata = PatchAdr(rg, used),
                                        !.localvd = NULL, !.clipbb = NULL,
                                        !.persp = v3d.persp]
                        ELSE rg,
                      regions)]
BKE_screen_view3d_do_versions_250(v3d, regions, used) ==
  [v3d |-> [v3d EXCEPT !.gridsubdiv = IF @ = 0 THEN 10 ELSE @],
   regions |-> SeqMap(LAMBDA rg :
                        IF rg.regiontype = RGN_TYPE_WINDOW /\ rg.regiondata = NULL
                        THEN [rg EXCEPT !.regiondata = PatchAdr(rg, used),
                                        !.localvd = NULL, !.clipbb = NULL,
                                        !.persp = v3d.persp]
                        ELSE rg,
                      regions)]

SpaceInfoAdr(area) == area.adr + 900

\* The space-link loop of direct_link_area.
LinkSpaceLinkKeepType(f, ord, sl) ==
  LET st == sl.spacetype
  IN [sl EXCEPT !.spacetype = st,
                !.regionbase = SeqMap(LAMBDA rg : direct_link_region(f, ord, rg, st),
                                      BLO_read_list(f, ord, @))]
LinkSpaceLink(f, ord, sl) ==
  LET st == IF BKE_spacetype_exists(sl.spacetype) THEN sl.spacetype ELSE SPACE_EMPTY
  IN [sl EXCEPT !.spacetype = st,
                !.regionbase = SeqMap(LAMBDA rg : direct_link_region(f, ord, rg, st),
                                      BLO_read_list(f, ord, @))]

\* An area read without space data gets a SpaceInfo (calloc'ed: all zero but
\* the space type).
SpacedataAsRead(a, spacedata0) == spacedata0
SpacedataOrInfo(a, spacedata0) ==
  IF spacedata0 = <<>>
  THEN <<[MkSpaceLink(SpaceInfoAdr(a), SPACE_INFO, <<>>) EXCEPT
            !.gridsubdiv = 0, !.persp = 0]>>
  ELSE spacedata0

\* area->butspacetype in direct_link_area: unset, then set to the space type
\* code of the file when that space type is not registered.
ButspacetypeAsRead(a) == a.butspacetype
LinkButspacetype(a) ==
  IF BKE_spacetype_exists(a.spacetype) THEN SPACE_EMPTY ELSE a.spacetype

\* The space links of area a (by position in the list as read) whose space
\* type's blend_read_data callback direct_link_area calls.
BlendReadDataCalls(f, ord, a) ==
  LET spacedata0 == BLO_read_list(f, ord, a.spacedata)
      spacedata1 == IF spacedata0 = <<>>
                    THEN <<MkSpaceLink(SpaceInfoAdr(a), SPACE_INFO, <<>>)>>
                    ELSE spacedata0
  IN {s \in 1..Len(spacedata1) :
        SpaceTypeOf(LinkSpaceLink(f, ord, spacedata1[s]).spacetype) # NULL}

\* direct_link_area; a is the ScrArea struct as read, at its new address.
direct_link_area(f, ord, a) ==
  LET spacedata0 == BLO_read_list(f, ord, a.spacedata)
      regionbase0 == BLO_read_list(f, ord, a.regionbase)
      known == BKE_spacetype_exists(a.spacetype)
      st1 == IF known THEN a.spacetype ELSE SPACE_EMPTY
      regions1 == SeqMap(LAMBDA rg : direct_link_region(f, ord, rg, st1), regionbase0)
      spacedata1 ==
        IF spacedata0 = <<>>
        THEN SpacedataOrInfo(a, spacedata0)
        ELSE IF st1 = SPACE_VIEW3D
        THEN [spacedata0 EXCEPT
                ![1] = BKE_screen_view3d_do_versions_250(@, regions1, {}).v3d]
        ELSE spacedata0
      st2 == IF spacedata0 = <<>> THEN SPACE_INFO ELSE st1
      regions2 ==
        IF spacedata0 # <<>> /\ st1 = SPACE_VIEW3D
        THEN BKE_screen_view3d_do_versions_250(spacedata0[1], regions1, {}).regions
        ELSE regions1
  IN [a EXCEPT !.handlers = 0, !.type = NULL, !.runtime = 0,
               !.butspacetype = LinkButspacetype(a),
               !.region_active_win = -1,
               !.flag = 0,
               !.global = newdataadr(f, ord, @),
               !.spacetype = st2,
               !.regionbase = regions2,
               !.spacedata = SeqMap(LAMBDA sl : LinkSpaceLink(f, ord, sl), spacedata1),
               !.actionzones = 0,
               !.v1 = newdataadr(f, ord, @), !.v2 = newdataadr(f, ord, @),
               !.v3 = newdataadr(f, ord, @), !.v4 = newdataadr(f, ord, @)]

\* Some region of the area makes direct_link_region write through a null rv3d.
AreaNullDeref(f, ord, a) ==
  LET st1 == IF BKE_spacetype_exists(a.spacetype) THEN a.spacetype ELSE SPACE_EMPTY
      regs == BLO_read_list(f, ord, a.regionbase)
      sls == BLO_read_list(f, ord, a.spacedata)
  IN \/ \E r \in 1..Len(regs) : RegionNullDeref(f, ord, regs[r], st1)
     \/ \E s \in 1..Len(sls) :
          LET st == IF BKE_spacetype_exists(sls[s].spacetype)
                    THEN sls[s].spacetype ELSE SPACE_EMPTY
              rs == BLO_read_list(f, ord, sls[s].regionbase)
          IN \E r \in 1..Len(rs) : RegionNullDeref(f, ord, rs[r], st)

\* The edge loop of BKE_screen_area_map_blend_read_data: endpoints resolved
\* and sorted.
ResolveEdgeV1Only(f, ord, se) ==
  LET s == BKE_screen_sort_scrvert(newdataadr(f, ord, se.v1), se.v2)
  IN [se EXCEPT !.v1 = s[1], !.v2 = s[2]]
ResolveEdge(f, ord, se) ==
  LET s == BKE_screen_sort_scrvert(newdataadr(f, ord, se.v1), newdataadr(f, ord, se.v2))
  IN [se EXCEPT !.v1 = s[1], !.v2 = s[2]]

\* BKE_screen_area_map_blend_read_data: [map, ok, unlinked].  The loop stops
\* at the first edge whose v1 is null after sorting: that edge is unlinked
\* (not freed), the edges behind it are left as read, and false is returned.
BKE_screen_area_map_blend_read_data(f, ord) ==
  LET verts == BLO_read_list(f, ord, f.map.vertbase)
      edges == BLO_read_list(f, ord, f.map.edgebase)
      areas == SeqMap(LAMBDA a : direct_link_area(f, ord, a),
                      BLO_read_list(f, ord, f.map.areabase))
      bad == {i \in 1..Len(edges) : ResolveEdge(f, ord, edges[i]).v1 = NULL}
  IN IF bad = {}
     THEN [map |-> [f.map EXCEPT !.vertbase = verts,
                                 !.edgebase = SeqMap(LAMBDA se : ResolveEdge(f, ord, se), edges),
                                 !.areabase = areas],
           ok |-> TRUE, unlinked |-> {}]
     ELSE LET k == Min(bad)
          IN [map |-> [f.map EXCEPT
                         !.vertbase = verts,
                         !.edgebase =
                           [i \in 1..(Len(edges) - 1) |->
                              IF i < k THEN ResolveEdge(f, ord, edges[i]) ELSE edges[i + 1]],
                         !.areabase = areas],
               ok |-> FALSE, unlinked |-> {edges[k].adr}]

\* BKE_screen_blend_read_data: [scr, ok, unlinked].
BKE_screen_blend_read_data(f, ord) ==
  LET r == BKE_screen_area_map_blend_read_data(f, ord)
  IN [scr |-> [r.map EXCEPT !.regionbase = 0, !.context = NULL, !.active_region = NULL,
                            !.animtimer = NULL, !.tool_tip = NULL, !.scrubbing = 0],
      ok |-> r.ok, unlinked |-> r.unlinked]

\* Addresses held by the region: itself, its region data, its panels.
RECURSIVE PanelAddrs(_)
PanelAddrs(lb) ==
  SeqUnion(SeqMap(LAMBDA p : {p.adr} \cup PanelAddrs(p.children), lb))

RegionAddrs(rg) ==
  {rg.adr} \cup ({rg.regiondata, rg.localvd, rg.clipbb} \ {NULL}) \cup PanelAddrs(rg.panels)

RegionListAddrs(lb) == SeqUnion(SeqMap(LAMBDA rg : RegionAddrs(rg), lb))

AreaAddrs(a) ==
  {a.adr} \cup ({a.v1, a.v2, a.v3, a.v4, a.global} \ {NULL})
  \cup RegionListAddrs(a.regionbase)
  \cup SeqUnion(SeqMap(LAMBDA sl : {sl.adr} \cup RegionListAddrs(sl.regionbase), a.spacedata))

\* Every address the screen links or points to.
Reach(scr) ==
  Range(SeqMap(LAMBDA v : v.adr, scr.vertbase))
  \cup SeqUnion(SeqMap(LAMBDA e : {e.adr} \cup ({e.v1, e.v2} \ {NULL}), scr.edgebase))
  \cup SeqUnion(SeqMap(LAMBDA a : AreaAddrs(a), scr.areabase))

\* The steps of direct_link_area on area j in the order they run: the lists
\* and the regions of the area, the versioning of a 3D viewport, the space
\* links, the corners.
AreaStepsVersionsLast(f, ord, a, j) ==
  LET st1 == IF BKE_spacetype_exists(a.spacetype) THEN a.spacetype ELSE SPACE_EMPTY
      step(op) == [op |-> op, n |-> j]
  IN <<step("lists"), step("regions")>>
     \o <<step("spacelinks"), step("corners")>>
     \o (IF BLO_read_list(f, ord, a.spacedata) # <<>> /\ st1 = SPACE_VIEW3D
         THEN <<step("versions")>> ELSE <<>>)
AreaSteps(f, ord, a, j) ==
  LET st1 == IF BKE_spacetype_exists(a.spacetype) THEN a.spacetype ELSE SPACE_EMPTY
      step(op) == [op |-> op, n |-> j]
  IN <<step("lists"), step("regions")>>
     \o (IF BLO_read_list(f, ord, a.spacedata) # <<>> /\ st1 = SPACE_VIEW3D
         THEN <<step("versions")>> ELSE <<>>)
     \o <<step("spacelinks"), step("corners")>>

\* The steps of BKE_screen_area_map_blend_read_data: every area, then the
\* edges up to the first one that does not resolve.
ReadSteps(f, ord) ==
  LET areas == BLO_read_list(f, ord, f.map.areabase)
      edges == BLO_read_list(f, ord, f.map.edgebase)
      bad == {i \in 1..Len(edges) : ResolveEdge(f, ord, edges[i]).v1 = NULL}
      last == IF bad = {} THEN Len(edges) ELSE Min(bad)
  IN SeqFlatMap(LAMBDA j : AreaSteps(f, ord, f.map.areabase[j], j),
                [j \in 1..Len(areas) |-> j])
     \o [i \in 1..last |-> [op |-> "edge", n |-> i]]

VertOrders(n) ==
  {[v \in 1..n |-> v], [v \in 1..n |-> n + 1 - v]}

\* A null rv3d in direct_link_region is undefined behaviour: the process is
\* killed, or the stores are dropped and the read goes on.
ReadData(ord) ==
  /\ pc \in {"written", "corrupt"}
  /\ ord \in VertOrders(Len(file.map.vertbase))
  /\ LET r == BKE_screen_blend_read_data(file, ord)
         ub == \E j \in 1..Len(file.map.areabase) :
                 AreaNullDeref(file, ord, [file.map.areabase[j] EXCEPT
                                             !.adr = NewAddrOf(ord, @)])
     IN \/ /\ ub
           /\ pc' = "crash"
           /\ UNCHANGED <<screen, orig, heap, freed, loaded, readOk, vorder, trace>>
        \/ /\ screen' = r.scr
           /\ orig' = screen
           /\ readOk' = r.ok
           /\ vorder' = ord
           /\ trace' = ReadSteps(file, ord)
           /\ loaded' = {a \in Reach(r.scr) : IsNew(a)} \cup r.unlinked
           /\ heap' = {a \in Reach(r.scr) : IsNew(a)} \cup r.unlinked
           /\ freed' = {}
           /\ pc' = "read"
  /\ UNCHANGED <<regVars, found, file, uiVars>>

-----------------------------------------------------------------------------
(* Post-link *)

\* BKE_area_region_free on a region read from a file: region->type is null
\* and no region type is found, so no free callback runs; the panels are
\* freed, the region data is not.
BKE_area_region_free(rg) == PanelAddrs(rg.panels)

\* BKE_area_region_free + BLI_freelinkN for every region of the list.
FreeRegionList(lb) ==
  SeqUnion(SeqMap(LAMBDA rg : BKE_area_region_free(rg) \cup {rg.adr}, lb))

\* regions_remove_invalid: [list, freed].
RemoveInvalidNone(st, lb) == [list |-> lb, freed |-> {}]
RemoveInvalidDropAll(st, lb) ==
  IF \A r \in 1..Len(lb) : BKE_regiontype_from_id(st, lb[r].regiontype)
  THEN [list |-> lb, freed |-> {}]
  ELSE [list |-> <<>>, freed |-> FreeRegionList(lb)]
regions_remove_invalid(st, lb) ==
  [list |-> SeqFilter(LAMBDA rg : BKE_regiontype_from_id(st, rg.regiontype), lb),
   freed |-> FreeRegionList(
               SeqFilter(LAMBDA rg : ~BKE_regiontype_from_id(st, rg.regiontype), lb))]

\* One iteration of the loop of BKE_screen_area_blend_read_after_liblink on
\* the region list lb of space link sl: [list, freed].
LinkSpaceRegions(sl, lb) ==
  LET st == SpaceTypeOf(sl.spacetype)
  IN IF st = NULL
     THEN [list |-> <<>>, freed |-> FreeRegionList(lb)]
     ELSE regions_remove_invalid(st, lb)

\* BKE_screen_area_blend_read_after_liblink: [area, freed].  The first space
\* link owns area->regionbase, the others their own sl->regionbase.
BKE_screen_area_blend_read_after_liblink(a) ==
  LET n == Len(a.spacedata)
      res == [s \in 1..n |->
                LinkSpaceRegions(a.spacedata[s],
                                 IF s = 1 THEN a.regionbase ELSE a.spacedata[s].regionbase)]
  IN [area |-> [a EXCEPT
                  !.regionbase = IF n = 0 THEN @ ELSE res[1].list,
                  !.spacedata = [s \in 1..n |->
                                   IF s = 1 THEN a.spacedata[s]
                                   ELSE [a.spacedata[s] EXCEPT !.regionbase = res[s].list]]],
      freed |-> UNION {res[s].freed : s \in 1..n}]

\* screen_blend_read_after_liblink: every area of the screen.
AfterLiblink ==
  /\ pc = "read"
  /\ readOk
  /\ LET res == SeqMap(LAMBDA a : BKE_screen_area_blend_read_after_liblink(a),
                       screen.areabase)
         fr == SeqUnion(SeqMap(LAMBDA r : r.freed, res))
     IN /\ screen' = [screen EXCEPT !.areabase = SeqMap(LAMBDA r : r.area, res)]
        /\ heap' = heap \ fr
        /\ freed' = freed \cup fr
  /\ trace' = trace \o [j \in 1..Len(screen.areabase) |-> [op |-> "post_link", n |-> j]]
  /\ pc' = "linked"
  /\ UNCHANGED <<regVars, found, file, orig, loaded, readOk, vorder, uiVars>>

-----------------------------------------------------------------------------
(* Save and load of a screen *)

RegistryOf(menu) ==
  [a \in StAddrs |->
     IF a <= Len(menu)
     THEN [status |-> "live", spaceid |-> menu[a].spaceid,
           regiontypes |-> menu[a].regiontypes]
     ELSE StUnalloc]

Init ==
  /\ \E menu \in RegistryMenu :
       /\ spacetypes = [i \in 1..Len(menu) |-> i]
       /\ stHeap = RegistryOf(menu)
  /\ lastReg = [st |-> NULL, spaceid |-> SPACE_EMPTY, dup |-> FALSE]
  /\ screen \in LiveScreens
  /\ found = NoFind
  /\ IdleIo
  /\ pc = "live"

Next ==
  \/ Write
  \/ \E b \in Droppable(file) : Corrupt(b)
  \/ \E ord \in VertOrders(Len(file.map.vertbase)) : ReadData(ord)
  \/ AfterLiblink

Spec == Init /\ [][Next]_vars

-----------------------------------------------------------------------------
(* Copies of regions and space links *)

\* panel_list_copy: the list duplicated node by node, children included; the
\* copies sit shift above their originals.
RECURSIVE panel_list_copy(_, _)
panel_list_copy(lb, shift) ==
  SeqMap(LAMBDA panel :
           [panel EXCEPT !.adr = @ + shift, !.activedata = NULL, !.drawname = NULL,
                         !.custom_data_ptr = NULL,
                         !.children = panel_list_copy(@, shift)],
         lb)

\* The duplicate callback of the 3D viewport's window region type: a new
\* RegionView3D with a localvd and a clipbb of its own.
Rv3dDuplicate(region, newadr) ==
  [regiondata |-> RegiondataAdr(newadr),
   localvd |-> IF region.localvd # NULL THEN LocalvdAdr(newadr) ELSE NULL,
   clipbb |-> IF region.clipbb # NULL THEN ClipbbAdr(newadr) ELSE NULL]

\* The regiondata branch with the pointer copied by MEM_dupallocN(region) left
\* as it is.
CopyRegiondataShared(st, region, newadr, duplicate) ==
  [regiondata |-> region.regiondata, localvd |-> region.localvd, clipbb |-> region.clipbb]

\* The regiondata branch of BKE_area_region_copy.  duplicate: the region type
\* has a duplicate callback.  Without it MEM_dupallocN copies the struct at
\* regiondata alone, pointers inside it included.
CopyRegiondata(st, region, newadr, duplicate) ==
  IF region.regiondata = NULL
  THEN [regiondata |-> NULL, localvd |-> NULL, clipbb |-> NULL]
  ELSE IF BKE_regiontype_from_id(st, region.regiontype) /\ duplicate
  THEN Rv3dDuplicate(region, newadr)
  ELSE IF IsTemp(region)
  THEN [regiondata |-> NULL, localvd |-> NULL, clipbb |-> NULL]
  ELSE [regiondata |-> RegiondataAdr(newadr),
        localvd |-> region.localvd, clipbb |-> region.clipbb]

\* BKE_area_region_copy(st, region), the copy allocated at newadr.
BKE_area_region_copy(st, region, newadr, duplicate) ==
  LET rd == CopyRegiondata(st, region, newadr, duplicate)
  IN [region EXCEPT !.adr = newadr, !.runtime = 0,
                    !.handlers = 0, !.uiblocks = 0, !.panels_category = 0,
                    !.visible = 0, !.gizmo_map = NULL, !.regiontimer = NULL,
                    !.headerstr = NULL, !.draw_buffer = NULL,
                    !.regiondata = rd.regiondata,
                    !.localvd = rd.localvd, !.clipbb = rd.clipbb,
                    !.panels = panel_list_copy(@, newadr - region.adr)]

\* region_copylist into the region list of space link s of area j.
region_copylist(st, j, s, lb_src, duplicate) ==
  [r \in 1..Len(lb_src) |->
     BKE_area_region_copy(st, lb_src[r], RegionAdr(j, s, r), duplicate)]

\* BKE_spacedata_copylist into area j: the space links of registered types
\* (every registered space type has a duplicate callback), each with a copy
\* of its region list.
BKE_spacedata_copylist(j, lb_src, duplicate) ==
  LET src == SeqFilter(LAMBDA sl : BKE_spacetype_exists(sl.spacetype), lb_src)
  IN [s \in 1..Len(src) |->
        [src[s] EXCEPT !.adr = SlAdr(j, s),
                       !.regionbase = region_copylist(SpaceTypeOf(src[s].spacetype), j, s,
                                                      src[s].regionbase, duplicate)]]

\* A second area is added to the screen and takes a copy of the space links
\* of the first.
CopyArea(duplicate) ==
  /\ pc = "live"
  /\ Len(screen.areabase) = 1
  /\ LET a == screen.areabase[1]
         sls == BKE_spacedata_copylist(2, a.spacedata, duplicate)
         b == [MkArea(2, <<a.spacetype>>, <<>>, <<>>) EXCEPT !.spacedata = sls]
     IN screen' = MkScreen(<<a, b>>)
  /\ UNCHANGED <<regVars, found, ioVars, pc, uiVars>>

\* Regions of an inactive 3D viewport: the window region's RegionView3D may
\* own a localvd and a clipbb.
Region3DChoices(spacetype) ==
  {c \in [k : KindsFor(spacetype), lv : BOOLEAN, cb : BOOLEAN] :
     (c.lv \/ c.cb) =>
       (spacetype = SPACE_VIEW3D /\ c.k.rt = RGN_TYPE_WINDOW /\ c.k.rd /\ ~c.k.temp)}

MkRegion3D(a, c) ==
  [MkRegion(a, c.k) EXCEPT !.localvd = IF c.lv THEN LocalvdAdr(a) ELSE NULL,
                           !.clipbb = IF c.cb THEN ClipbbAdr(a) ELSE NULL]

CopyScreens ==
  UNION {{MkScreen(<<[MkArea(1, sl, rk, <<>>) EXCEPT
                        ![ "spacedata" ][2].regionbase =
                          [r \in 1..Len(cs) |-> MkRegion3D(RegionAdr(1, 2, r), cs[r])]]>>) :
            rk \in SeqsUpTo(KindsFor(sl[1]), 1),
            cs \in SeqsUpTo(Region3DChoices(sl[2]), MaxSlRegions)} :
         sl \in {x \in SlTypeLists : Len(x) = 2}}

InitCopy ==
  /\ \E menu \in {x \in RegistryMenu : Len(x) = 2} :
       /\ spacetypes = [i \in 1..Len(menu) |-> i]
       /\ stHeap = RegistryOf(menu)
  /\ lastReg = [st |-> NULL, spaceid |-> SPACE_EMPTY, dup |-> FALSE]
  /\ screen \in CopyScreens
  /\ found = NoFind
  /\ IdleIo
  /\ pc = "live"

NextCopy ==
  \/ \E duplicate \in BOOLEAN : CopyArea(duplicate)
  \/ Write

SpecCopy == InitCopy /\ [][NextCopy]_vars

-----------------------------------------------------------------------------
(* Versioning of a 3D viewport *)

\* One call of BKE_screen_view3d_do_versions_250 on the area of the screen;
\* the allocator avoids the addresses in use.
VersionStep(n) ==
  /\ pc = n
  /\ Len(screen.areabase) = 1
  /\ LET a == screen.areabase[1]
         r == BKE_screen_view3d_do_versions_250(a.spacedata[1], a.regionbase,
                                                AreaAddrs(a) \cup heap)
     IN /\ screen' = [screen EXCEPT !.areabase[1].spacedata[1] = r.v3d,
                                    !.areabase[1].regionbase = r.regions]
        /\ heap' = heap \cup (RegionListAddrs(r.regions) \ RegionListAddrs(a.regionbase))
  /\ orig' = IF n = "v0" THEN screen ELSE orig
  /\ pc' = IF n = "v0" THEN "v1" ELSE "v2"
  /\ UNCHANGED <<regVars, found, file, freed, loaded, readOk, vorder, trace, uiVars>>

\* BKE_screen_view3d_do_versions_250 applied to a 3D viewport, and applied
\* once more.
DoVersions == VersionStep("v0")
DoVersionsAgain == VersionStep("v1")

\* 3D viewports as old files hold them: any gridsubdiv, window regions with
\* or without a RegionView3D.
VersionScreens ==
  {MkScreen(<<[MkArea(1, <<SPACE_VIEW3D>>, rk, <<>>) EXCEPT
                 !.spacedata[1].gridsubdiv = g, !.spacedata[1].persp = p]>>) :
     rk \in SeqsUpTo(RegionKinds, MaxRegions), g \in {0, 5, 10}, p \in {1, 2}}

InitVersions ==
  /\ spacetypes = <<1, 2>>
  /\ stHeap = RegistryOf(<<[spaceid |-> SPACE_VIEW3D, regiontypes |-> RegionIds],
                           [spaceid |-> SPACE_INFO, regiontypes |-> RegionIds]>>)
  /\ lastReg = [st |-> NULL, spaceid |-> SPACE_EMPTY, dup |-> FALSE]
  /\ screen \in VersionScreens
  /\ found = NoFind
  /\ IdleIo
  /\ pc = "v0"

NextVersions == DoVersions \/ DoVersionsAgain

SpecVersions == InitVersions /\ [][NextVersions]_vars

-----------------------------------------------------------------------------
(* Screen clean-up after areas were added, split or joined *)

\* The vertex at address a, as se->v1-> or area->v1-> reaches it.
VertAt(vs, a) == vs[CHOOSE i \in 1..Len(vs) : vs[i].adr = a]

\* First loop of BKE_screen_remove_double_scrverts, from list position i on:
\* every vertex without newv claims the later vertices without newv that
\* share its coordinates.
RECURSIVE MarkDoubles(_, _)
MarkDoubles(vs, i) ==
  IF i > Len(vs) THEN vs
  ELSE MarkDoubles(
         IF vs[i].newv # NULL THEN vs
         ELSE [k \in 1..Len(vs) |->
                 IF k > i /\ vs[k].newv = NULL /\ vs[k].x = vs[i].x /\ vs[k].y = vs[i].y
                 THEN [vs[k] EXCEPT !.newv = vs[i].adr]
                 ELSE vs[k]],
         i + 1)

\* v->newv when set, else v.
NewvKeep(vs, a) == a
NewvOr(vs, a) == IF VertAt(vs, a).newv # NULL THEN VertAt(vs, a).newv ELSE a

\* Second loop of BKE_screen_remove_double_scrverts: endpoints replaced, then
\* sorted.
RelinkEdgeNoSort(vs, se) == [se EXCEPT !.v1 = NewvOr(vs, se.v1), !.v2 = NewvOr(vs, se.v2)]
RelinkEdge(vs, se) ==
  LET s == BKE_screen_sort_scrvert(NewvOr(vs, se.v1), NewvOr(vs, se.v2))
  IN [se EXCEPT !.v1 = s[1], !.v2 = s[2]]

\* BKE_screen_remove_double_scrverts: [scr, freed].
BKE_screen_remove_double_scrverts(scr) ==
  LET vs == MarkDoubles(scr.vertbase, 1)
  IN [scr |-> [scr EXCEPT
                 !.vertbase = SeqFilter(LAMBDA v : v.newv = NULL, vs),
                 !.edgebase = SeqMap(LAMBDA se : RelinkEdge(vs, se), @),
                 !.areabase = SeqMap(LAMBDA a : [a EXCEPT !.v1 = NewvOr(vs, @),
                                                          !.v2 = NewvOr(vs, @),
                                                          !.v3 = NewvOr(vs, @),
                                                          !.v4 = NewvOr(vs, @)], @)],
      freed |-> {vs[i].adr : i \in {k \in 1..Len(vs) : vs[k].newv # NULL}}]

\* BKE_screen_remove_double_scredges: an edge goes when an edge in front of
\* it has the same stored endpoints.  [scr, freed].
BKE_screen_remove_double_scredges(scr) ==
  LET es == scr.edgebase
      dup == {i \in 1..Len(es) :
                \E j \in 1..(i - 1) : es[j].v1 = es[i].v1 /\ es[j].v2 = es[i].v2}
  IN [scr |-> [scr EXCEPT !.edgebase = SeqFilter(LAMBDA se : \A i \in dup : es[i].adr # se.adr, es)],
      freed |-> {es[i].adr : i \in dup}]

\* The edges BKE_screen_remove_unused_scredges flags: per area the edge found
\* for each of its four sides.
AreaSides(a) == {<<a.v1, a.v2>>, <<a.v2, a.v3>>, <<a.v3, a.v4>>, <<a.v4, a.v1>>}
FlaggedEdges(scr) ==
  {BKE_screen_find_edge(scr, side[1], side[2]) :
     side \in UNION {AreaSides(scr.areabase[j]) : j \in 1..Len(scr.areabase)}} \ {NULL}

\* BKE_screen_remove_unused_scredges: [scr, freed].
RemoveUnusedKeepAll(scr) == [scr |-> scr, freed |-> {}]
BKE_screen_remove_unused_scredges(scr) ==
  LET used == FlaggedEdges(scr)
      keep(se) == se.adr \in used \/ se.flag # 0
  IN [scr |-> [scr EXCEPT !.edgebase = SeqMap(LAMBDA se : [se EXCEPT !.flag = 0],
                                              SeqFilter(keep, @))],
      freed |-> {se.adr : se \in {e \in Range(scr.edgebase) : ~keep(e)}}]

\* BKE_screen_remove_unused_scrverts: [scr, freed].
BKE_screen_remove_unused_scrverts(scr) ==
  LET used == UNION {{se.v1, se.v2} : se \in Range(scr.edgebase)}
      keep(sv) == sv.adr \in used \/ sv.flag # 0
  IN [scr |-> [scr EXCEPT !.vertbase = SeqMap(LAMBDA sv : [sv EXCEPT !.flag = 0],
                                              SeqFilter(keep, @))],
      freed |-> {sv.adr : sv \in {v \in Range(scr.vertbase) : ~keep(v)}}]

\* Positions after a clean-up call; the last one is remove_unused_scrverts
\* called right after remove_unused_scredges.
EditPcs == {"live", "linked", "dverts", "dedges", "uedges", "uverts", "uedges_uverts"}

EditStep(r, label) ==
  /\ pc \in EditPcs
  /\ screen' = r.scr
  /\ freed' = freed \cup r.freed
  /\ heap' = heap \ r.freed
  /\ pc' = label
  /\ UNCHANGED <<regVars, found, file, orig, loaded, readOk, vorder, trace, uiVars>>

RemoveDoubleScrverts == EditStep(BKE_screen_remove_double_scrverts(screen), "dverts")
RemoveDoubleScredges == EditStep(BKE_screen_remove_double_scredges(screen), "dedges")
RemoveUnusedScredges == EditStep(BKE_screen_remove_unused_scredges(screen), "uedges")
RemoveUnusedScrverts ==
  EditStep(BKE_screen_remove_unused_scrverts(screen),
           IF pc = "uedges" THEN "uedges_uverts" ELSE "uverts")

\* A row of n areas as area creation leaves it: every area has four vertices
\* and four edges of its own, so neighbours hold vertices with equal
\* coordinates; optionally an edge and a vertex no area uses.  rev: the vertex
\* list runs against the address order.
RawVerts(n, extraV) ==
  [v \in 1..(4 * n + (IF extraV THEN 1 ELSE 0)) |->
     IF v > 4 * n THEN MkVert(v, n + 1, 0)
     ELSE LET j == (v - 1) \div 4
              k == (v - 1) % 4
          IN MkVert(v, IF k \in {0, 1} THEN j ELSE j + 1, IF k \in {0, 3} THEN 0 ELSE 1)]

RawEdges(n, extraE) ==
  [e \in 1..(4 * n + (IF extraE THEN 1 ELSE 0)) |->
     IF e > 4 * n THEN MkEdge(EdgeAdr(e), 1, 3)
     ELSE LET b == 4 * ((e - 1) \div 4)
              k == (e - 1) % 4
          IN IF k = 3 THEN MkEdge(EdgeAdr(e), b + 1, b + 4)
             ELSE MkEdge(EdgeAdr(e), b + k + 1, b + k + 2)]

Reverse(s) == [i \in 1..Len(s) |-> s[Len(s) + 1 - i]]

MkRawScreen(n, rev, extraE, extraV) ==
  [MkScreen([j \in 1..n |->
               [MkArea(j, <<SPACE_INFO>>, <<>>, <<>>) EXCEPT
                  !.v1 = 4 * (j - 1) + 1, !.v2 = 4 * (j - 1) + 2,
                  !.v3 = 4 * (j - 1) + 3, !.v4 = 4 * (j - 1) + 4]])
   EXCEPT !.vertbase = IF rev THEN Reverse(RawVerts(n, extraV)) ELSE RawVerts(n, extraV),
          !.edgebase = RawEdges(n, extraE)]

RawScreens ==
  {MkRawScreen(n, rev, extraE, extraV) :
     n \in 1..MaxAreas, rev \in BOOLEAN, extraE \in BOOLEAN, extraV \in BOOLEAN}

InitEdit ==
  /\ spacetypes = <<1, 2>>
  /\ stHeap = RegistryOf(<<[spaceid |-> SPACE_VIEW3D, regiontypes |-> RegionIds],
                           [spaceid |-> SPACE_INFO, regiontypes |-> RegionIds]>>)
  /\ lastReg = [st |-> NULL, spaceid |-> SPACE_EMPTY, dup |-> FALSE]
  /\ screen \in RawScreens
  /\ found = NoFind
  /\ IdleIo
  /\ pc = "live"

NextEdit ==
  \/ Write
  \/ \E ord \in VertOrders(Len(file.map.vertbase)) : ReadData(ord)
  \/ AfterLiblink
  \/ RemoveDoubleScrverts
  \/ RemoveDoubleScredges
  \/ RemoveUnusedScredges
  \/ RemoveUnusedScrverts

SpecEdit == InitEdit /\ [][NextEdit]_vars

-----------------------------------------------------------------------------
\* C1: after BKE_spacetype_register of a spaceid that was already registered,
\* the list holds exactly one entry with that spaceid, no freed descriptor is
\* linked in it, and BKE_spacetype_from_id(spaceid) returns the new st.
C1_LastRegistrationWins ==
  lastReg.dup =>
    /\ \A i \in 1..Len(spacetypes) : stHeap[spacetypes[i]].status = "live"
    /\ Cardinality({i \in 1..Len(spacetypes) :
                      stHeap[spacetypes[i]].spaceid = lastReg.spaceid}) = 1
    /\ BKE_spacetype_from_id(lastReg.spaceid) = {lastReg.st}


\* C10: with the edges stored in canonical order, BKE_screen_find_edge(A, B)
\* returns the same edge as BKE_screen_find_edge(B, A), and the result is
\* non-null exactly when some edge has the endpoints {A, B}.
C10_FindEdgeSymmetric ==
  (found.a # NULL /\ EdgesCanonical(screen)) =>
    /\ found.ab = found.ba
    /\ (found.ab # NULL) <=>
         (\E i \in 1..Len(screen.edgebase) :
            {screen.edgebase[i].v1, screen.edgebase[i].v2} = {found.a, found.b})

\* A query with the higher address first that found an edge.
C10_Witness ==
  /\ found.a > found.b /\ found.b # NULL
  /\ EdgesCanonical(screen)
  /\ found.ab # NULL

-----------------------------------------------------------------------------
(* Properties of the save / load pipeline *)

Loaded == pc \in {"read", "linked"}
Intact == file.present = Range(file.blocks)

\* The region list owned by space link s of area a.
RegionList(a, s) == IF s = 1 THEN a.regionbase ELSE a.spacedata[s].regionbase

\* All region lists of area a, as a sequence (one per space link, then the
\* area's own list when it has no space link).
AllRegions(a) ==
  a.regionbase \o SeqFlatMap(LAMBDA sl : sl.regionbase, a.spacedata)

RegionValid(sl, rg) ==
  /\ SpaceTypeOf(sl.spacetype) # NULL
  /\ BKE_regiontype_from_id(SpaceTypeOf(sl.spacetype), rg.regiontype)

\* Every space type and region type of the screen is registered.
AllRegistered(scr) ==
  \A j \in 1..Len(scr.areabase) :
    LET a == scr.areabase[j]
    IN /\ BKE_spacetype_exists(a.spacetype)
       /\ \A s \in 1..Len(a.spacedata) :
            /\ BKE_spacetype_exists(a.spacedata[s].spacetype)
            /\ \A r \in 1..Len(RegionList(a, s)) :
                 RegionValid(a.spacedata[s], RegionList(a, s)[r])

New(old) == NewAddrOf(vorder, old)

SameRegions(lo, ln) ==
  /\ Len(ln) = Len(lo)
  /\ \A r \in 1..Len(lo) :
       ln[r].adr = New(lo[r].adr) /\ ln[r].regiontype = lo[r].regiontype

\* Vertices, areas, regions and space links of the loaded screen correspond
\* to those of the saved one, in order.
SameButEdges ==
  /\ Len(screen.vertbase) = Len(orig.vertbase)
  /\ \A i \in 1..Len(orig.vertbase) :
       /\ screen.vertbase[i].adr = New(orig.vertbase[i].adr)
       /\ screen.vertbase[i].x = orig.vertbase[i].x
       /\ screen.vertbase[i].y = orig.vertbase[i].y
  /\ Len(screen.edgebase) = Len(orig.edgebase)
  /\ Len(screen.areabase) = Len(orig.areabase)
  /\ \A j \in 1..Len(orig.areabase) :
       LET o == orig.areabase[j]
           n == screen.areabase[j]
       IN /\ n.adr = New(o.adr)
          /\ n.spacetype = o.spacetype
          /\ n.v1 = New(o.v1) /\ n.v2 = New(o.v2) /\ n.v3 = New(o.v3) /\ n.v4 = New(o.v4)
          /\ SameRegions(o.regionbase, n.regionbase)
          /\ Len(n.spacedata) = Len(o.spacedata)
          /\ \A s \in 1..Len(o.spacedata) :
               /\ n.spacedata[s].adr = New(o.spacedata[s].adr)
               /\ n.spacedata[s].spacetype = o.spacedata[s].spacetype
               /\ SameRegions(o.spacedata[s].regionbase, n.spacedata[s].regionbase)

RoundTrip == pc = "linked" /\ Intact /\ AllRegistered(orig)

RegionRuntimeClear(rg) ==
  /\ rg.runtime = 0 /\ rg.type = NULL /\ rg.visible = 0 /\ rg.do_draw = 0
  /\ rg.gizmo_map = NULL /\ rg.regiontimer = NULL /\ rg.draw_buffer = NULL
  /\ rg.headerstr = NULL /\ rg.handlers = 0 /\ rg.uiblocks = 0 /\ rg.panels_category = 0

\* C3: after BKE_screen_blend_read_data every region, area and the screen have
\* their run-time fields reset, whatever the file held.
C3_RuntimeFieldsReset ==
  Loaded =>
    /\ \A j \in 1..Len(screen.areabase) :
         LET a == screen.areabase[j]
         IN /\ a.type = NULL /\ a.runtime = 0 /\ a.handlers = 0 /\ a.actionzones = 0
            /\ a.region_active_win = -1
            /\ \A r \in 1..Len(AllRegions(a)) : RegionRuntimeClear(AllRegions(a)[r])
    /\ screen.active_region = NULL /\ screen.context = NULL
    /\ screen.animtimer = NULL /\ screen.tool_tip = NULL /\ screen.regionbase = 0

\* A screen read from a file that held populated run-time fields, with
\* regions in the area and in an inactive space.
C3_Witness ==
  /\ pc = "read"
  /\ file.map.active_region # NULL
  /\ \E j \in 1..Len(screen.areabase) :
       /\ file.map.areabase[j].runtime # 0
       /\ screen.areabase[j].regionbase # <<>>
       /\ file.map.areabase[j].regionbase[1].gizmo_map # NULL
       /\ \E s \in 1..Len(screen.areabase[j].spacedata) :
            screen.areabase[j].spacedata[s].regionbase # <<>>

PostLinkStep == pc = "read" /\ pc' = "linked"

\* C4: after post-link every region left in the region list of a registered
\* space has a registered region type, and every region whose region type is
\* not registered there has been freed and unlinked.
C4_RegionsValidAfterPostLink ==
  [][PostLinkStep =>
       \A j \in 1..Len(screen.areabase) :
         \A s \in 1..Len(screen.areabase[j].spacedata) :
           LET sl == screen.areabase[j].spacedata[s]
               before == RegionList(screen.areabase[j], s)
               after == RegionList(screen'.areabase[j], s)
           IN SpaceTypeOf(sl.spacetype) # NULL =>
                /\ \A r \in 1..Len(after) : RegionValid(sl, after[r])
                /\ \A r \in 1..Len(before) :
                     ~RegionValid(sl, before[r]) =>
                       /\ before[r].adr \in freed'
                       /\ before[r].adr \notin heap'
                       /\ before[r].adr \notin Reach(screen')
  ]_vars

\* Post-link freed a region of a registered space and kept another one of the
\* same list.
C4_Witness ==
  /\ pc = "linked"
  /\ \E j \in 1..Len(screen.areabase) :
       LET a == screen.areabase[j]
       IN /\ SpaceTypeOf(a.spacedata[1].spacetype) # NULL
          /\ Len(a.regionbase) = 1
          /\ Len(orig.areabase[j].regionbase) = 2
          /\ \E r \in 1..2 : New(orig.areabase[j].regionbase[r].adr) \in freed

\* C5: for an area or space link whose space type is not registered the
\* read-data stage nulls regiondata of its regions; after post-link the
\* region list of an unregistered space is empty, and no region of an unknown
\* region type or space type still holds regiondata.
C5_NoRegiondataForUnknownTypes ==
  /\ pc = "read" =>
       \A j \in 1..Len(screen.areabase) :
         LET a == screen.areabase[j]
             fa == file.map.areabase[j]
         IN /\ ~BKE_spacetype_exists(fa.spacetype) =>
                 \A r \in 1..Len(a.regionbase) : a.regionbase[r].regiondata = NULL
            /\ \A s \in 1..Len(a.spacedata) :
                 (s <= Len(fa.spacedata) /\ ~BKE_spacetype_exists(fa.spacedata[s].spacetype)) =>
                   \A r \in 1..Len(a.spacedata[s].regionbase) :
                     a.spacedata[s].regionbase[r].regiondata = NULL
  /\ pc = "linked" =>
       \A j \in 1..Len(screen.areabase) :
         LET a == screen.areabase[j]
         IN /\ ~BKE_spacetype_exists(a.spacetype) => a.regionbase = <<>>
            /\ \A s \in 1..Len(a.spacedata) :
                 /\ ~BKE_spacetype_exists(a.spacedata[s].spacetype) => RegionList(a, s) = <<>>
                 /\ \A r \in 1..Len(RegionList(a, s)) :
                      ~RegionValid(a.spacedata[s], RegionList(a, s)[r]) =>
                        RegionList(a, s)[r].regiondata = NULL

\* A loaded area of an unregistered space type whose regions held regiondata
\* in the file, after post-link.
C5_Witness ==
  /\ pc = "linked"
  /\ \E j \in 1..Len(screen.areabase) :
       LET fa == file.map.areabase[j]
       IN /\ ~BKE_spacetype_exists(fa.spacetype)
          /\ fa.regionbase # <<>>
          /\ fa.regionbase[1].regiondata # NULL
          /\ Len(fa.spacedata) > 1
          /\ fa.spacedata[2].regionbase # <<>>

\* Areas of the file with a corner vertex whose block is missing.
AreasMissingCorner ==
  {j \in 1..Len(file.map.areabase) :
     LET fa == file.map.areabase[j]
     IN {fa.v1, fa.v2, fa.v3, fa.v4} \ file.present # {}}

\* C6: when a corner vertex of an area cannot be resolved on load, that area
\* is absent from the loaded screen, the area count is one less, and no
\* remaining area has a null corner.
C6_AreaWithMissingCornerPruned ==
  (Loaded /\ AreasMissingCorner # {}) =>
    /\ \A j \in AreasMissingCorner :
         \A k \in 1..Len(screen.areabase) :
           screen.areabase[k].adr # New(file.map.areabase[j].adr)
    /\ Cardinality(AreasMissingCorner) = 1 =>
         Len(screen.areabase) = Len(file.map.areabase) - 1
    /\ \A k \in 1..Len(screen.areabase) :
         NULL \notin {screen.areabase[k].v1, screen.areabase[k].v2,
                      screen.areabase[k].v3, screen.areabase[k].v4}

\* Edges of the file (by list index) with an endpoint whose block is missing.
BadEdges ==
  {i \in 1..Len(file.map.edgebase) :
     {file.map.edgebase[i].v1, file.map.edgebase[i].v2} \ file.present # {}}

EdgeResolved(se, fe) ==
  /\ se.adr = New(fe.adr)
  /\ {se.v1, se.v2} = {New(fe.v1), New(fe.v2)}
  /\ se.v1 <= se.v2

C8_NoLeakAfterLoad ==
  Loaded => heap \subseteq Reach(screen)

\* The region lists of area a after post-link, as the claim describes them:
\* the regions of a registered space that have a registered type, in their
\* order; none for an unregistered space.
KeptRegions(sl, lb) == SeqFilter(LAMBDA rg : RegionValid(sl, rg), lb)

\* C9: post-link visits every space link of every area; it removes the
\* invalid regions from each region list and leaves the other regions (in
\* order), the space links and the areas as they were.
C9_PostLinkIsLocal ==
  [][PostLinkStep =>
       /\ Len(screen'.areabase) = Len(screen.areabase)
       /\ \A j \in 1..Len(screen.areabase) :
            LET a == screen.areabase[j]
                b == screen'.areabase[j]
            IN /\ b.regionbase = KeptRegions(a.spacedata[1], a.regionbase)
               /\ Len(b.spacedata) = Len(a.spacedata)
               /\ b.spacedata[1] = a.spacedata[1]
               /\ \A s \in 2..Len(a.spacedata) :
                    b.spacedata[s] =
                      [a.spacedata[s] EXCEPT
                         !.regionbase = KeptRegions(a.spacedata[s], @)]
               /\ [b EXCEPT !.regionbase = <<>>, !.spacedata = <<>>]
                    = [a EXCEPT !.regionbase = <<>>, !.spacedata = <<>>]
       /\ [screen' EXCEPT !.areabase = <<>>] = [screen EXCEPT !.areabase = <<>>]
  ]_vars

\* Post-link ran on an area whose first space link is unknown and had regions
\* to drop, while its registered second space link keeps a region.
C9_Witness ==
  /\ pc = "linked"
  /\ \E j \in 1..Len(screen.areabase) :
       LET a == screen.areabase[j]
       IN /\ Len(a.spacedata) = 2
          /\ ~BKE_spacetype_exists(a.spacedata[1].spacetype)
          /\ orig.areabase[j].regionbase # <<>>
          /\ BKE_spacetype_exists(a.spacedata[2].spacetype)
          /\ a.spacedata[2].regionbase # <<>>

-----------------------------------------------------------------------------
(* Animation player: the frame cache *)

PLAY_FRAME_CACHE_MAX == 30
MaxPics == 32       \* pictures of the image sequence

\* frame_cache_add: the picture goes to the head of g_frame_cache.pics.
frame_cache_add(c, pic) ==
  [c EXCEPT !.pics = <<pic>> \o @, !.pics_len = @ + 1]

\* frame_cache_remove
frame_cache_remove(c, pic) ==
  [c EXCEPT !.pics = SeqFilter(LAMBDA x : x # pic, @), !.pics_len = @ - 1]

\* frame_cache_touch: the picture moves to the head of the list.
frame_cache_touch(c, pic) ==
  [c EXCEPT !.pics = <<pic>> \o SeqFilter(LAMBDA x : x # pic, @)]

\* frame_cache_limit_exceeded
frame_cache_limit_exceeded(c) ==
  IF c.memory_limit # 0
  THEN c.pics_size_in_memory > c.memory_limit
  ELSE c.pics_len > PLAY_FRAME_CACHE_MAX

\* The loop of frame_cache_limit_apply from the node at position i of the
\* list as it was on entry (nodes), towards the head; every picture in the
\* cache has its ibuf.
RECURSIVE LimitApplyFrom(_, _, _, _)
LimitApplyFrom(c, nodes, i, keep) ==
  IF i = 0 \/ ~frame_cache_limit_exceeded(c) THEN c
  ELSE LimitApplyFrom(IF nodes[i] # keep THEN frame_cache_remove(c, nodes[i]) ELSE c,
                      nodes, i - 1, keep)

\* frame_cache_limit_apply(ibuf_keep), keep being the picture that owns
\* ibuf_keep.
frame_cache_limit_apply(c, keep) == LimitApplyFrom(c, c.pics, Len(c.pics), keep)

\* One round of the loop of build_pict_list_from_image_sequence: the picture
\* is appended to picsbase and, while the cache is being filled, cached.
BuildPict ==
  /\ pc = "build"
  /\ Len(play.picsbase) < play.totframes
  /\ LET picture == Len(play.picsbase) + 1
         c == IF play.fill_cache THEN frame_cache_add(play.cache, picture) ELSE play.cache
     IN play' = [play EXCEPT
                   !.picsbase = Append(@, picture),
                   !.cache = c,
                   !.fill_cache = IF play.fill_cache THEN ~frame_cache_limit_exceeded(c) ELSE @]
  /\ UNCHANGED <<regVars, scrVars, ioVars, wm, pc>>

\* Playback starts at the first picture, or at the last when playing
\* backwards.
StartPlay(direction) ==
  /\ pc = "build"
  /\ Len(play.picsbase) = play.totframes
  /\ play' = [play EXCEPT !.direction = direction,
                          !.picture = IF direction > 0 THEN 1 ELSE play.totframes]
  /\ pc' = "play"
  /\ UNCHANGED <<regVars, scrVars, ioVars, wm>>

\* One round of the playback loop of wm_main_playanim_intern: the picture is
\* added to the cache or touched, the limit is applied with the picture on
\* display kept, and playback steps on, wrapping around at the ends.
PlayFrame ==
  /\ pc = "play"
  /\ LET pic == play.picture
         c1 == IF pic \notin Range(play.cache.pics)
               THEN frame_cache_add(play.cache, pic)
               ELSE frame_cache_touch(play.cache, pic)
         c2 == frame_cache_limit_apply(c1, pic)
         nxt == pic + play.direction
     IN play' = [play EXCEPT
                   !.cache = c2,
                   !.keep = pic,
                   !.evicted = Range(c1.pics) \ Range(c2.pics),
                   !.picture = IF nxt < 1 THEN play.totframes
                               ELSE IF nxt > play.totframes THEN 1 ELSE nxt]
  /\ UNCHANGED <<regVars, scrVars, ioVars, wm, pc>>

InitPlay ==
  /\ spacetypes = <<>> /\ stHeap = [a \in StAddrs |-> StUnalloc]
  /\ lastReg = [st |-> NULL, spaceid |-> SPACE_EMPTY, dup |-> FALSE]
  /\ IdleScreen /\ IdleFile
  /\ wm = NoWm
  /\ \E n \in 1..MaxPics :
       play = [picsbase |-> <<>>, totframes |-> n, fill_cache |-> TRUE,
               cache |-> [pics |-> <<>>, pics_len |-> 0,
                          pics_size_in_memory |-> 0, memory_limit |-> 0],
               picture |-> NULL, direction |-> 1, keep |-> NULL, evicted |-> {}]
  /\ pc = "build"

NextPlay ==
  \/ BuildPict
  \/ \E direction \in {1, -1} : StartPlay(direction)
  \/ PlayFrame

SpecPlay == InitPlay /\ [][NextPlay]_vars

-----------------------------------------------------------------------------
(* The window manager's draw pass: wm_draw.cc *)

MaxWin == 2          \* windows of the window manager
MaxWinRegions == 2   \* regions of a window: area regions and menus together

\* Positions of the pointer (win->eventstate->xy).
CursorXY == {<<0, 0>>, <<1, 0>>}

\* g_software_cursor as the program starts: enabled and winid are -1, the
\* position is zero-initialised.
SoftwareCursorInit == [enabled |-> -1, winid |-> -1, xy |-> <<0, 0>>]

\* An ARegion with the draw flags the pass reads.  gizmo_map tells whether
\* the region has a gizmo map, gz_do_draw stands for a gizmo of that map
\* with do_draw set.
MkWinRegion(visible, gizmo_map) ==
  [visible |-> visible, do_draw |-> FALSE, gizmo_map |-> gizmo_map,
   gz_do_draw |-> FALSE, do_draw_paintcursor |-> FALSE]

\* The flags of a bScreen.
ScreenFlags ==
  {"do_refresh", "do_draw", "do_draw_gesture", "do_draw_paintcursor", "do_draw_drag"}

\* A window with its active screen.  regions are the regions of the screen's
\* areas in drawing order, menus is screen->regionbase.  needed is what GHOST
\* answers for the window (cursor visible and the grab uses the software
\* cursor).  cursor_drawn tells whether the window's most recent draw drew
\* the software cursor; drew and late record the last pass, until something
\* changes: whether it drew the window, and the regions tagged during that
\* draw after their own turn.
MkWindow(winid, regions, menus) ==
  [winid |-> winid, needed |-> FALSE, xy |-> <<0, 0>>,
   do_refresh |-> FALSE, do_draw |-> FALSE, do_draw_gesture |-> FALSE,
   do_draw_paintcursor |-> FALSE, do_draw_drag |-> FALSE,
   regions |-> regions, menus |-> menus,
   drew |-> FALSE, cursor_drawn |-> FALSE, late |-> {}]

\* wm_software_cursor_needed: the value of g_software_cursor.enabled after
\* the call; cursor_warp is the WM_CAPABILITY_CURSOR_WARP capability.
wm_software_cursor_needed(g, cursor_warp) ==
  IF g.enabled = -1 THEN (IF cursor_warp THEN 0 ELSE 1) ELSE g.enabled

\* wm_software_cursor_needed_for_window
wm_software_cursor_needed_for_window(win) == win.needed

\* wm_software_cursor_motion_test
wm_software_cursor_motion_test(g, win) ==
  g.winid # win.winid \/ g.xy[1] # win.xy[1] \/ g.xy[2] # win.xy[2]

\* wm_software_cursor_motion_update
wm_software_cursor_motion_update(g, win) ==
  [g EXCEPT !.winid = win.winid, !.xy = win.xy]

\* wm_software_cursor_motion_clear
wm_software_cursor_motion_clear(g) ==
  [g EXCEPT !.winid = -1, !.xy = <<-1, -1>>]

\* wm_software_cursor_motion_clear_with_window
wm_software_cursor_motion_clear_with_window(g, win) ==
  IF g.winid = win.winid THEN wm_software_cursor_motion_clear(g) ELSE g

\* wm_region_test_gizmo_do_draw for a region whose gizmo groups do not have
\* WM_GIZMOGROUPTYPE_VR_REDRAWS: a gizmo with do_draw set tags the region
\* when tag_redraw is given, and its do_draw is cleared.
wm_region_test_gizmo_do_draw(region, tag_redraw) ==
  IF ~region.gizmo_map THEN region
  ELSE IF region.gz_do_draw
  THEN [region EXCEPT !.do_draw = IF tag_redraw THEN TRUE ELSE @,
                      !.gz_do_draw = FALSE]
  ELSE region

\* The first loop of wm_draw_update_test_window: a paint cursor tag of a
\* region of screen->regionbase moves to the screen.
TestMenus(win) ==
  [win EXCEPT
     !.do_draw_paintcursor =
        @ \/ \E i \in 1..Len(win.menus) : win.menus[i].do_draw_paintcursor,
     !.menus = [i \in 1..Len(win.menus) |->
                  [win.menus[i] EXCEPT !.do_draw_paintcursor = FALSE]]]

\* The second loop of wm_draw_update_test_window over the regions of the
\* areas (no region of the model shows a render engine's preview).
TestRegions(win) ==
  [win EXCEPT
     !.regions = [i \in 1..Len(win.regions) |->
                    wm_region_test_gizmo_do_draw(win.regions[i], TRUE)]]

\* wm_draw_update_test_window: the window and g_software_cursor after the
\* call, and the value it returns.
wm_draw_update_test_window(win0, g0, cursor_warp) ==
  LET win == TestRegions(TestMenus(win0))
      enabled == wm_software_cursor_needed(g0, cursor_warp)
      flagged ==
        \/ \E i \in 1..Len(win.menus) : win.menus[i].visible /\ win.menus[i].do_draw
        \/ \E i \in 1..Len(win.regions) : win.regions[i].visible /\ win.regions[i].do_draw
        \/ win.do_refresh
        \/ win.do_draw
        \/ win.do_draw_gesture
        \/ win.do_draw_paintcursor
        \/ win.do_draw_drag
      \* the cursor test is reached only when no flag asked for a redraw
      g == IF flagged THEN g0 ELSE [g0 EXCEPT !.enabled = enabled]
      cursor ==
        /\ enabled # 0
        /\ IF wm_software_cursor_needed_for_window(win)
           THEN wm_software_cursor_motion_test(g, win)
           ELSE g.winid = win.winid
  IN [win |-> win, g |-> g, do_draw |-> flagged \/ cursor]

\* What the drawing code may tag while a window is drawn: at most one tag
\* per draw of a window, made at draw step `step` (the turn of a region of
\* the areas, then of a menu, then the on-screen part); step 0 is no tag.
NoTagEvent == [step |-> 0, kind |-> "none", i |-> 0, flag |-> "none"]

DrawSteps(win) == 1..(Len(win.regions) + Len(win.menus) + 1)

TagEvents(win) ==
  {NoTagEvent}
  \cup {[step |-> s, kind |-> "region", i |-> i, flag |-> "none"] :
          s \in DrawSteps(win), i \in 1..Len(win.regions)}
  \cup {[step |-> s, kind |-> "gizmo", i |-> i, flag |-> "none"] :
          s \in DrawSteps(win),
          i \in {j \in 1..Len(win.regions) : win.regions[j].gizmo_map}}
  \cup {[step |-> s, kind |-> "menu", i |-> i, flag |-> "none"] :
          s \in DrawSteps(win), i \in 1..Len(win.menus)}
  \cup {[step |-> s, kind |-> "screen", i |-> 0, flag |-> f] :
          s \in DrawSteps(win), f \in ScreenFlags \ {"do_refresh"}}

\* The draw step at which a tagged region has its own turn.
TurnOf(win, ev) ==
  IF ev.kind = "menu" THEN Len(win.regions) + ev.i ELSE ev.i

\* The tag of event ev made during draw step ev.step: ED_region_tag_redraw
\* on a region or a menu, a gizmo's do_draw, wm_draw_region_clear
\* (screen->do_draw), WM_paint_cursor_tag_redraw, a gesture or a drag tag.
ApplyTag(win, ev) ==
  LET tagged ==
        CASE ev.kind = "region" -> [win EXCEPT !.regions[ev.i].do_draw = TRUE]
          [] ev.kind = "gizmo" -> [win EXCEPT !.regions[ev.i].gz_do_draw = TRUE]
          [] ev.kind = "menu" -> [win EXCEPT !.menus[ev.i].do_draw = TRUE]
          [] ev.flag = "do_draw" -> [win EXCEPT !.do_draw = TRUE]
          [] ev.flag = "do_draw_gesture" -> [win EXCEPT !.do_draw_gesture = TRUE]
          [] ev.flag = "do_draw_paintcursor" -> [win EXCEPT !.do_draw_paintcursor = TRUE]
          [] ev.flag = "do_draw_drag" -> [win EXCEPT !.do_draw_drag = TRUE]
          [] OTHER -> win
  IN [tagged EXCEPT
        !.late = IF ev.kind \in {"region", "menu"} /\ TurnOf(win, ev) < ev.step
                 THEN {[kind |-> ev.kind, i |-> ev.i]}
                 ELSE @]

\* The loop "Then do actual drawing of regions" of wm_draw_window_offscreen
\* from region i on: a region is drawn when it is visible and tagged, and
\* its do_draw is cleared right after its own ED_region_do_draw.
RECURSIVE DrawRegionsFrom(_, _, _)
DrawRegionsFrom(win, i, ev) ==
  IF i > Len(win.regions) THEN win
  ELSE IF ~win.regions[i].visible \/ ~win.regions[i].do_draw
       THEN DrawRegionsFrom(win, i + 1, ev)
       ELSE LET drawn == IF ev.step = i THEN ApplyTag(win, ev) ELSE win
            IN DrawRegionsFrom([drawn EXCEPT !.regions[i].do_draw = FALSE], i + 1, ev)

\* The loop "Draw menus into their own frame-buffer" from menu i on: every
\* visible menu is drawn, and its do_draw cleared.
RECURSIVE DrawMenusFrom(_, _, _)
DrawMenusFrom(win, i, ev) ==
  IF i > Len(win.menus) THEN win
  ELSE IF ~win.menus[i].visible
       THEN DrawMenusFrom(win, i + 1, ev)
       ELSE LET drawn == IF ev.step = Len(win.regions) + i THEN ApplyTag(win, ev) ELSE win
            IN DrawMenusFrom([drawn EXCEPT !.menus[i].do_draw = FALSE], i + 1, ev)

\* wm_draw_window_offscreen
wm_draw_window_offscreen(win, ev) ==
  DrawMenusFrom(DrawRegionsFrom([win EXCEPT !.late = {}], 1, ev), 1, ev)

\* wm_draw_window_onscreen: overlays, paint cursors, menus and gestures are
\* drawn, then the software cursor is drawn for the window or the state it
\* left is cleared.  The window and g_software_cursor after the call.
wm_draw_window_onscreen(win0, g0, cursor_warp, ev) ==
  LET win == IF ev.step = Len(win0.regions) + Len(win0.menus) + 1
             THEN ApplyTag(win0, ev) ELSE win0
      enabled == wm_software_cursor_needed(g0, cursor_warp)
      g == [g0 EXCEPT !.enabled = enabled]
  IN IF enabled # 0
     THEN IF wm_software_cursor_needed_for_window(win)
          THEN [win |-> [win EXCEPT !.cursor_drawn = TRUE],
                g |-> wm_software_cursor_motion_update(g, win)]
          ELSE [win |-> [win EXCEPT !.cursor_drawn = FALSE],
                g |-> wm_software_cursor_motion_clear_with_window(g, win)]
     ELSE [win |-> [win EXCEPT !.cursor_drawn = FALSE], g |-> g]

\* wm_draw_window (mono drawing): off-screen, on-screen, and then
\* screen->do_draw = false.
wm_draw_window(win, g, cursor_warp, ev) ==
  LET on == wm_draw_window_onscreen(wm_draw_window_offscreen(win, ev), g, cursor_warp, ev)
  IN [win |-> [on.win EXCEPT !.do_draw = FALSE], g |-> on.g]

\* wm_draw_update_clear_window without the line that clears do_draw_drag.
ClearWindowKeepDrag(win) ==
  [win EXCEPT
     !.regions = [i \in 1..Len(win.regions) |->
                    wm_region_test_gizmo_do_draw(win.regions[i], FALSE)],
     !.do_draw_gesture = FALSE,
     !.do_draw_paintcursor = FALSE]

\* wm_draw_update_clear_window
wm_draw_update_clear_window(win) ==
  [win EXCEPT
     !.regions = [i \in 1..Len(win.regions) |->
                    wm_region_test_gizmo_do_draw(win.regions[i], FALSE)],
     !.do_draw_gesture = FALSE,
     !.do_draw_paintcursor = FALSE,
     !.do_draw_drag = FALSE]

\* The body of the loop of wm_draw_update for window i, and the windows
\* after it: the window is drawn when the test asks for it.
RECURSIVE DrawUpdateFrom(_, _, _)
DrawUpdateFrom(w, i, evs) ==
  IF i > Len(w.windows) THEN w
  ELSE LET t == wm_draw_update_test_window(w.windows[i], w.cursor, w.cursor_warp)
           d == wm_draw_window(t.win, t.g, w.cursor_warp, evs[i])
       IN IF t.do_draw
          THEN DrawUpdateFrom(
                 [w EXCEPT
                    !.windows[i] = [wm_draw_update_clear_window(d.win) EXCEPT !.drew = TRUE],
                    !.cursor = d.g],
                 i + 1, evs)
          ELSE DrawUpdateFrom(
                 [w EXCEPT !.windows[i] = [t.win EXCEPT !.drew = FALSE],
                           !.cursor = t.g],
                 i + 1, evs)

\* wm_draw_update: one pass over the windows.
WmDrawUpdate ==
  /\ pc = "wm"
  /\ \E evs \in [1..Len(wm.windows) -> UNION {TagEvents(wm.windows[i]) : i \in 1..Len(wm.windows)}] :
       /\ \A i \in 1..Len(wm.windows) : evs[i] \in TagEvents(wm.windows[i])
       /\ wm' = [DrawUpdateFrom(wm, 1, evs) EXCEPT !.fresh = TRUE]
  /\ UNCHANGED <<regVars, scrVars, ioVars, play, pc>>

\* Something changes between two passes: what the last pass recorded about
\* its draws is over.
AfterPass(w) ==
  [w EXCEPT !.fresh = FALSE,
            !.windows = [i \in 1..Len(w.windows) |->
                           [w.windows[i] EXCEPT !.drew = FALSE, !.late = {}]]]

\* The grab of a window starts or stops using the software cursor.
SetNeeded(w, needed) ==
  /\ pc = "wm"
  /\ w \in 1..Len(wm.windows)
  /\ wm.windows[w].needed # needed
  /\ wm' = AfterPass([wm EXCEPT !.windows[w].needed = needed])
  /\ UNCHANGED <<regVars, scrVars, ioVars, play, pc>>

\* The pointer moves in a window.
MoveCursor(w, xy) ==
  /\ pc = "wm"
  /\ w \in 1..Len(wm.windows)
  /\ wm.windows[w].xy # xy
  /\ wm' = AfterPass([wm EXCEPT !.windows[w].xy = xy])
  /\ UNCHANGED <<regVars, scrVars, ioVars, play, pc>>

\* A tag made between two passes: on a region, a gizmo, a menu, a paint
\* cursor of a menu region, or a flag of the screen.
TagRedraw(w, ev) ==
  /\ pc = "wm"
  /\ w \in 1..Len(wm.windows)
  /\ ev \in TagEvents(wm.windows[w]) /\ ev.step = 1
  /\ ApplyTag(wm.windows[w], ev) # wm.windows[w]
  /\ wm' = AfterPass([wm EXCEPT !.windows[w] = ApplyTag(@, ev)])
  /\ UNCHANGED <<regVars, scrVars, ioVars, play, pc>>

\* WM_paint_cursor_tag_redraw's counterpart on a region of screen->regionbase.
TagPaintCursor(w, i) ==
  /\ pc = "wm"
  /\ w \in 1..Len(wm.windows)
  /\ i \in 1..Len(wm.windows[w].menus)
  /\ ~wm.windows[w].menus[i].do_draw_paintcursor
  /\ wm' = AfterPass([wm EXCEPT !.windows[w].menus[i].do_draw_paintcursor = TRUE])
  /\ UNCHANGED <<regVars, scrVars, ioVars, play, pc>>

\* The screen is tagged for a refresh, or has been refreshed.
SetRefresh(w, do_refresh) ==
  /\ pc = "wm"
  /\ w \in 1..Len(wm.windows)
  /\ wm.windows[w].do_refresh # do_refresh
  /\ wm' = AfterPass([wm EXCEPT !.windows[w].do_refresh = do_refresh])
  /\ UNCHANGED <<regVars, scrVars, ioVars, play, pc>>

IdleRegistry ==
  /\ spacetypes = <<>> /\ stHeap = [a \in StAddrs |-> StUnalloc]
  /\ lastReg = [st |-> NULL, spaceid |-> SPACE_EMPTY, dup |-> FALSE]

\* Windows without regions on a platform that cannot warp the cursor:
\* the software cursor is in use.
InitCursor ==
  /\ IdleRegistry /\ IdleScreen /\ IdleFile /\ play = NoPlay
  /\ \E n \in 1..MaxWin :
       wm = [windows |-> [w \in 1..n |-> MkWindow(w, <<>>, <<>>)],
             cursor |-> SoftwareCursorInit, cursor_warp |-> FALSE, fresh |-> FALSE]
  /\ pc = "wm"

NextCursor ==
  \/ WmDrawUpdate
  \/ \E w \in 1..MaxWin, needed \in BOOLEAN : SetNeeded(w, needed)
  \/ \E w \in 1..MaxWin, xy \in CursorXY : MoveCursor(w, xy)

SpecCursor == InitCursor /\ [][NextCursor]_vars

\* One window with regions and menus on a platform that warps the cursor;
\* the first region of the window has a gizmo map, and at most one of the
\* regions and menus is hidden.
InitDraw ==
  /\ IdleRegistry /\ IdleScreen /\ IdleFile /\ play = NoPlay
  /\ \E nr \in 1..MaxWinRegions :
       \E nm \in 0..(MaxWinRegions - nr) :
         \E hidden \in 0..(nr + nm) :
           wm = [windows |->
                   <<MkWindow(1, [i \in 1..nr |-> MkWinRegion(i # hidden, i = 1)],
                                 [i \in 1..nm |-> MkWinRegion(nr + i # hidden, FALSE)])>>,
                 cursor |-> SoftwareCursorInit, cursor_warp |-> TRUE, fresh |-> FALSE]
  /\ pc = "wm"

NextDraw ==
  \/ WmDrawUpdate
  \/ \E ev \in UNION {TagEvents(wm.windows[i]) : i \in 1..Len(wm.windows)} : TagRedraw(1, ev)
  \/ \E i \in 1..MaxWinRegions : TagPaintCursor(1, i)
  \/ \E do_refresh \in BOOLEAN : SetRefresh(1, do_refresh)

SpecDraw == InitDraw /\ [][NextDraw]_vars

-----------------------------------------------------------------------------
(* Properties of the screen clean-up *)

\* The corners and endpoints of the screen all point at linked vertices.
EditWellFormed ==
  LET va == {screen.vertbase[i].adr : i \in 1..Len(screen.vertbase)}
  IN /\ \A i \in 1..Len(screen.edgebase) :
          {screen.edgebase[i].v1, screen.edgebase[i].v2} \subseteq va
     /\ \A j \in 1..Len(screen.areabase) :
          LET a == screen.areabase[j] IN {a.v1, a.v2, a.v3, a.v4} \subseteq va

\* C11: after a successful read and after every clean-up call, every edge of
\* the screen has v1 not above v2 in address order.
C11_EdgesAlwaysCanonical ==
  ((pc \in {"read", "linked"} /\ readOk) \/ pc \in EditPcs) => EdgesCanonical(screen)

\* remove_double_scrverts merged vertices of a screen that was read with the
\* allocation order reversed.
C11_Witness ==
  /\ pc = "dverts"
  /\ Len(screen.areabase) > 1
  /\ Len(screen.vertbase) < Len(orig.vertbase)
  /\ vorder # <<>> /\ vorder[1] # 1

\* The area sides that an edge is the stored form of.
SidesOf(se) ==
  {js \in (1..Len(screen.areabase)) \X (1..4) :
     LET a == screen.areabase[js[1]]
         c == <<a.v1, a.v2, a.v3, a.v4, a.v1>>
     IN {c[js[2]], c[js[2] + 1]} = {se.v1, se.v2}}

EveryVertexOnAnEdge ==
  \A i \in 1..Len(screen.vertbase) :
    \E k \in 1..Len(screen.edgebase) :
      screen.vertbase[i].adr \in {screen.edgebase[k].v1, screen.edgebase[k].v2}

\* C12 as claimed: after remove_unused_scredges followed by
\* remove_unused_scrverts every remaining edge is referenced by exactly one
\* area side and every remaining vertex is an endpoint of an edge.
C12_EdgeOnExactlyOneSide ==
  pc = "uedges_uverts" =>
    /\ \A k \in 1..Len(screen.edgebase) : Cardinality(SidesOf(screen.edgebase[k])) = 1
    /\ EveryVertexOnAnEdge

\* C12 as amended: after remove_unused_scredges followed by
\* remove_unused_scrverts every remaining edge is referenced by at least one
\* area side and every remaining vertex is an endpoint of an edge.
C12_EdgeOnSomeSide ==
  pc = "uedges_uverts" =>
    /\ \A k \in 1..Len(screen.edgebase) : SidesOf(screen.edgebase[k]) # {}
    /\ EveryVertexOnAnEdge

\* The two calls dropped something and left an edge that two areas share.
C12_Witness ==
  /\ pc = "uedges_uverts"
  /\ freed # {}
  /\ \E k \in 1..Len(screen.edgebase) : Cardinality(SidesOf(screen.edgebase[k])) = 2

-----------------------------------------------------------------------------
(* Properties of the writer *)

WriteStep == pc \in {"live", "linked"} /\ pc' \in {"written", "resaved"}

\* C13: after BKE_screen_area_map_blend_write returns, every field of every
\* vertex, edge, area, region and space link of the written map, butspacetype
\* included, has the value it had before the call.
C13_WriteLeavesGraphUnchanged ==
  [][WriteStep => screen' = screen]_vars

\* C14: in one write pass each address is written as a block at most once,
\* also when a RegionView3D's localvd or clipbb has more than one owner.
C14_EachBlockWrittenOnce ==
  pc = "written" =>
    \A i \in 1..Len(file.blocks) : \A j \in 1..Len(file.blocks) :
      i # j => file.blocks[i] # file.blocks[j]

Saved == pc \in {"written", "resaved"}
Written(b) == \E i \in 1..Len(file.blocks) : file.blocks[i] = b
Pos(b) == CHOOSE i \in 1..Len(file.blocks) : file.blocks[i] = b

\* Where both blocks were written, a was written first.
Before(a, b) == (Written(a) /\ Written(b)) => Pos(a) < Pos(b)
BeforeAll(A, B) == \A a \in A, b \in B : Before(a, b)

\* The nodes of a list were written in list order.
InListOrder(lb) == \A i \in 1..Len(lb), j \in 1..Len(lb) : i < j => Before(lb[i].adr, lb[j].adr)

RECURSIVE ParentsFirst(_)
ParentsFirst(lb) ==
  /\ InListOrder(lb)
  /\ \A i \in 1..Len(lb) :
       /\ BeforeAll({lb[i].adr}, PanelAddrs(lb[i].children))
       /\ ParentsFirst(lb[i].children)

\* A region: the ARegion struct, its region data, then its panels.
RegionOrder(rg) ==
  /\ Written(rg.adr)
  /\ Before(rg.adr, rg.regiondata)
  /\ BeforeAll({rg.regiondata}, {rg.localvd, rg.clipbb})
  /\ Before(rg.localvd, rg.clipbb)
  /\ BeforeAll({rg.adr, rg.regiondata, rg.localvd, rg.clipbb}, PanelAddrs(rg.panels))
  /\ ParentsFirst(rg.panels)

RegionListOrder(lb) ==
  /\ \A r \in 1..Len(lb) : RegionOrder(lb[r])
  /\ \A r \in 1..Len(lb), q \in 1..Len(lb) :
       r < q => BeforeAll(RegionAddrs(lb[r]), RegionAddrs(lb[q]))

SlBlocks(sl) == {sl.adr} \cup RegionListAddrs(sl.regionbase)
AreaBlocks(a) ==
  {a.adr} \cup ({a.global} \ {NULL}) \cup RegionListAddrs(a.regionbase)
  \cup UNION {SlBlocks(a.spacedata[s]) : s \in 1..Len(a.spacedata)}

\* The traversal order of the writer; slFirst: a space link is written in
\* front of its regions, else behind them.
WriteOrder(slFirst) ==
  LET verts == {screen.vertbase[i].adr : i \in 1..Len(screen.vertbase)}
      edges == {screen.edgebase[i].adr : i \in 1..Len(screen.edgebase)}
      areas == screen.areabase
  IN /\ verts \cup edges \subseteq Range(file.blocks)
     /\ InListOrder(screen.vertbase) /\ InListOrder(screen.edgebase)
     /\ BeforeAll(verts, edges)
     /\ \A j \in 1..Len(areas) :
          LET a == areas[j]
              sls == a.spacedata
          IN /\ Written(a.adr)
             /\ BeforeAll(verts \cup edges, AreaBlocks(a))
             /\ \A k \in 1..Len(areas) : j < k => BeforeAll(AreaBlocks(a), AreaBlocks(areas[k]))
             /\ BeforeAll({a.adr}, AreaBlocks(a) \ {a.adr})
             /\ BeforeAll({a.global}, AreaBlocks(a) \ {a.adr, a.global})
             /\ RegionListOrder(a.regionbase)
             /\ \A s \in 1..Len(sls) :
                  /\ BeforeAll(RegionListAddrs(a.regionbase), SlBlocks(sls[s]))
                  /\ RegionListOrder(sls[s].regionbase)
                  /\ IF slFirst
                     THEN BeforeAll({sls[s].adr}, RegionListAddrs(sls[s].regionbase))
                     ELSE BeforeAll(RegionListAddrs(sls[s].regionbase), {sls[s].adr})
                  /\ \A t \in 1..Len(sls) : s < t => BeforeAll(SlBlocks(sls[s]), SlBlocks(sls[t]))

-----------------------------------------------------------------------------
(* Properties of the versioning transform *)

\* C16: a second application of BKE_screen_view3d_do_versions_250 to the same
\* View3D and region list changes nothing: no region data is allocated, no
\* RegionView3D field changes and gridsubdiv stays.
C16_DoVersionsIdempotent ==
  [][(pc = "v1" /\ pc' = "v2") => (screen' = screen /\ heap' = heap)]_vars

\* The first application allocated a RegionView3D and set gridsubdiv, and the
\* transform was applied again.
C16_Witness ==
  /\ pc = "v2"
  /\ heap # {}
  /\ orig.areabase[1].spacedata[1].gridsubdiv = 0
  /\ screen.areabase[1].spacedata[1].gridsubdiv = 10
  /\ \E r \in 1..Len(screen.areabase[1].regionbase) :
       /\ orig.areabase[1].regionbase[r].regiondata = NULL
       /\ screen.areabase[1].regionbase[r].regiondata \in heap
       /\ screen.areabase[1].regionbase[r].persp = screen.areabase[1].spacedata[1].persp

-----------------------------------------------------------------------------
(* Order of the load stages *)

StepsOf(ops) == {i \in 1..Len(trace) : trace[i].op \in ops}
ResolveOps == {"lists", "regions", "spacelinks", "corners", "edge"}

\* C17 as claimed: versioning starts only after every reference of the area
\* map is resolved, and post-link only after resolution and versioning are
\* complete for the whole map.
C17_StagesAreBarriers ==
  /\ \A i \in StepsOf(ResolveOps), k \in StepsOf({"versions"}) : i < k
  /\ \A i \in StepsOf(ResolveOps \cup {"versions"}), k \in StepsOf({"post_link"}) : i < k

\* C17 as amended: the versioning of an area runs inside direct_link_area,
\* after the regions of that area are linked and before its space links and
\* corners, the later areas and the edges are resolved; post-link starts only
\* after resolution and versioning are complete for the whole map.
C17_VersioningInsideAreaLink ==
  /\ \A k \in StepsOf({"versions"}) :
       \A i \in StepsOf(ResolveOps) :
         IF \/ (trace[i].op \in {"lists", "regions"} /\ trace[i].n <= trace[k].n)
            \/ (trace[i].op # "edge" /\ trace[i].n < trace[k].n)
         THEN i < k ELSE k < i
  /\ \A i \in StepsOf(ResolveOps \cup {"versions"}), k \in StepsOf({"post_link"}) : i < k

\* A load through post-link of two areas, the first a 3D viewport.
C17_Witness ==
  /\ pc = "linked"
  /\ Len(screen.areabase) > 1
  /\ \E k \in StepsOf({"versions"}) : trace[k].n = 1
  /\ StepsOf({"post_link"}) # {} /\ StepsOf({"edge"}) # {}

-----------------------------------------------------------------------------
(* No old address after read-data *)

\* C18: after the read-data stage the regiondata of every region is null or
\* the new address of a loaded block, never an address of the file, whatever
\* the space type, the region type and the region flags are.
C18_RegiondataNullOrResolved ==
  pc = "read" =>
    \A j \in 1..Len(screen.areabase) :
      \A rg \in Range(AllRegions(screen.areabase[j])) :
        rg.regiondata = NULL \/ IsNew(rg.regiondata)

-----------------------------------------------------------------------------
(* Result of the read *)

\* C19: the read of the area map returns false exactly when some edge has an
\* endpoint that resolves to null, whichever endpoint it is, and the read of
\* the screen returns the same.
C19_ReadFailsIffNullEndpoint ==
  pc = "read" =>
    /\ BKE_screen_area_map_blend_read_data(file, vorder).ok = (BadEdges = {})
    /\ readOk = (BadEdges = {})

\* A failed read of a file in which the only missing endpoint is the v2 of an
\* edge whose v1 is present.
C19_Witness ==
  /\ pc = "read"
  /\ ~readOk
  /\ BadEdges # {}
  /\ \A i \in BadEdges :
       /\ file.map.edgebase[i].v1 \in file.present
       /\ file.map.edgebase[i].v2 \notin file.present

-----------------------------------------------------------------------------
(* Unknown space types at read time *)

KnownOrEmpty(spacetype) == BKE_spacetype_exists(spacetype) \/ spacetype = SPACE_EMPTY

\* C20: an area whose space type is not registered is read as SPACE_EMPTY
\* with its original code kept in butspacetype, a space link whose space type
\* is not registered is read as SPACE_EMPTY and no blend_read_data callback is
\* called for it, the other space links and areas are read all the same, and
\* after the read-data stage every space type of the screen is a registered
\* one, SPACE_EMPTY, or SPACE_INFO where a space was added to an area that had
\* none.
C20_UnknownSpaceTypesTolerated ==
  pc = "read" =>
    /\ Len(screen.areabase) = Len(file.map.areabase)
    /\ \A j \in 1..Len(screen.areabase) :
         LET a == screen.areabase[j]
             fa == file.map.areabase[j]
             sls == BLO_read_list(file, vorder, fa.spacedata)
         IN /\ ~BKE_spacetype_exists(fa.spacetype) =>
                 /\ a.butspacetype = fa.spacetype
                 /\ a.spacetype = IF sls = <<>> THEN SPACE_INFO ELSE SPACE_EMPTY
            /\ KnownOrEmpty(a.spacetype) \/ (sls = <<>> /\ a.spacetype = SPACE_INFO)
            /\ Len(a.spacedata) = IF sls = <<>> THEN 1 ELSE Len(sls)
            /\ \A s \in 1..Len(a.spacedata) :
                 /\ KnownOrEmpty(a.spacedata[s].spacetype)
                 /\ sls # <<>> =>
                      IF BKE_spacetype_exists(sls[s].spacetype)
                      THEN a.spacedata[s].spacetype = sls[s].spacetype
                      ELSE /\ a.spacedata[s].spacetype = SPACE_EMPTY
                           /\ s \notin BlendReadDataCalls(file, vorder, fa)

\* A screen read from a file whose first area has a space type that is not
\* registered, and whose second area has a registered one.
C20_Witness ==
  /\ pc = "read"
  /\ Len(screen.areabase) > 1
  /\ ~BKE_spacetype_exists(file.map.areabase[1].spacetype)
  /\ screen.areabase[1].butspacetype = file.map.areabase[1].spacetype
  /\ screen.areabase[1].spacedata[1].spacetype = SPACE_EMPTY
  /\ BKE_spacetype_exists(file.map.areabase[2].spacetype)
  /\ screen.areabase[2].spacetype = file.map.areabase[2].spacetype
  /\ BlendReadDataCalls(file, vorder, file.map.areabase[2]) = {1}

-----------------------------------------------------------------------------
(* butspacetype after the read *)

-----------------------------------------------------------------------------
(* Space links after the read *)

\* C22: after the read-data stage every area owns at least one space link;
\* an area for which the file holds no space data has exactly one, a
\* SpaceInfo, and its space type is SPACE_INFO; for an area for which the
\* file holds space data the space links are the ones read, none added and
\* none removed.
C22_AreaOwnsSpaceLink ==
  pc = "read" =>
    \A j \in 1..Len(screen.areabase) :
      LET a == screen.areabase[j]
          fa == file.map.areabase[j]
          sls == BLO_read_list(file, vorder, fa.spacedata)
      IN /\ Len(a.spacedata) >= 1
         /\ sls = <<>> =>
              /\ Len(a.spacedata) = 1
              /\ a.spacedata[1].adr = SpaceInfoAdr(a)
              /\ a.spacedata[1].adr \notin {New(fa.spacedata[s].adr) : s \in 1..Len(fa.spacedata)}
              /\ a.spacetype = SPACE_INFO
         /\ sls # <<>> =>
              /\ [s \in 1..Len(a.spacedata) |-> a.spacedata[s].adr]
                   = [s \in 1..Len(sls) |-> sls[s].adr]
              /\ a.spacetype # SPACE_INFO \/ fa.spacetype = SPACE_INFO

\* A screen read from a file that holds no space data for its area, which
\* was not an info area.
C22_Witness ==
  /\ pc = "read"
  /\ file.map.areabase[1].spacedata # <<>>
  /\ file.map.areabase[1].spacetype # SPACE_INFO
  /\ BLO_read_list(file, vorder, file.map.areabase[1].spacedata) = <<>>
  /\ screen.areabase[1].spacetype = SPACE_INFO
  /\ Len(screen.areabase[1].spacedata) = 1

-----------------------------------------------------------------------------
(* Temporary region data *)

\* The regions of the file paired with the regions read from them: the
\* area's own list and the lists of the space links that were read.  patch
\* marks the window regions in the list of an area read as a 3D viewport,
\* the ones that BKE_screen_view3d_do_versions_250 looks at.
TempPairs ==
  UNION {LET a == screen.areabase[j]
             fa == file.map.areabase[j]
             sls == BLO_read_list(file, vorder, fa.spacedata)
             n == IF sls = <<>> THEN 0 ELSE Len(a.spacedata)
         IN {[old |-> fa.regionbase[r], new |-> a.regionbase[r],
              patch |-> /\ sls # <<>>
                        /\ a.spacetype = SPACE_VIEW3D
                        /\ fa.regionbase[r].regiontype = RGN_TYPE_WINDOW] :
               r \in 1..Len(fa.regionbase)}
            \cup UNION {{[old |-> fa.spacedata[s].regionbase[r],
                          new |-> a.spacedata[s].regionbase[r],
                          patch |-> FALSE] :
                           r \in 1..Len(fa.spacedata[s].regionbase)} : s \in 1..n} :
         j \in 1..Len(screen.areabase)}

\* C23 as claimed: for a region with RGN_FLAG_TEMP_REGIONDATA the file holds
\* the ARegion struct and no region data block, and after the read-data stage
\* the region's regiondata is null, whatever the space type and region type.
C23_TempRegiondataDropped ==
  pc = "read" =>
    \A p \in TempPairs :
      IsTemp(p.old) =>
        /\ p.old.adr \in Range(file.blocks)
        /\ p.old.regiondata \notin Range(file.blocks)
        /\ p.new.regiondata = NULL

\* C23 as amended: for a region with RGN_FLAG_TEMP_REGIONDATA the file holds
\* the ARegion struct and no region data block; after the read-data stage the
\* region's regiondata is null, except for a window region in the list of an
\* area read as a 3D viewport, which holds a RegionView3D allocated by
\* BKE_screen_view3d_do_versions_250 and nothing of the file.
C23_TempRegiondataNotRestored ==
  pc = "read" =>
    \A p \in TempPairs :
      IsTemp(p.old) =>
        /\ p.old.adr \in Range(file.blocks)
        /\ p.old.regiondata \notin Range(file.blocks)
        /\ IF p.patch
           THEN /\ p.new.regiondata \in heap
                /\ p.new.regiondata \notin {New(b) : b \in Range(file.blocks) \cup {p.old.regiondata}}
                /\ p.new.localvd = NULL /\ p.new.clipbb = NULL
           ELSE p.new.regiondata = NULL

\* A screen read from a file with a region of an info area or of an inactive
\* space link that was saved with temporary region data.
C23_Witness ==
  /\ pc = "read"
  /\ \E p \in TempPairs :
       /\ IsTemp(p.old) /\ ~p.patch
       /\ p.old.regiondata # NULL
       /\ p.new.regiondata = NULL

-----------------------------------------------------------------------------
(* Copy of a region *)

\* The regions of the first area's space links paired with their copies in
\* the second area.
CopyPairs(scr1, scr2) ==
  UNION {{[st |-> SpaceTypeOf(scr1.areabase[1].spacedata[s].spacetype),
           src |-> scr1.areabase[1].spacedata[s].regionbase[r],
           new |-> scr2.areabase[2].spacedata[s].regionbase[r]] :
            r \in 1..Len(scr1.areabase[1].spacedata[s].regionbase)} :
         s \in 1..Len(scr1.areabase[1].spacedata)}

RegionCopyOk(p, duplicate) ==
  LET art == BKE_regiontype_from_id(p.st, p.src.regiontype)
  IN /\ p.new.adr # p.src.adr
     /\ p.new.runtime = 0 /\ p.new.handlers = 0 /\ p.new.uiblocks = 0
     /\ p.new.panels_category = 0 /\ p.new.visible = 0
     /\ p.new.gizmo_map = NULL /\ p.new.regiontimer = NULL
     /\ p.new.headerstr = NULL /\ p.new.draw_buffer = NULL
     /\ p.new.regiontype = p.src.regiontype /\ p.new.flag = p.src.flag
     /\ p.src.regiondata = NULL => p.new.regiondata = NULL
     /\ (p.src.regiondata # NULL /\ art /\ duplicate) =>
          /\ p.new.regiondata = Rv3dDuplicate(p.src, p.new.adr).regiondata
          /\ p.new.localvd = Rv3dDuplicate(p.src, p.new.adr).localvd
          /\ p.new.clipbb = Rv3dDuplicate(p.src, p.new.adr).clipbb
     /\ (p.src.regiondata # NULL /\ ~(art /\ duplicate) /\ IsTemp(p.src)) =>
          p.new.regiondata = NULL
     /\ (p.src.regiondata # NULL /\ ~(art /\ duplicate) /\ ~IsTemp(p.src)) =>
          p.new.regiondata \notin {NULL, p.src.regiondata}
     /\ p.new.regiondata = NULL \/ p.new.regiondata # p.src.regiondata

\* C24: the copy made by BKE_area_region_copy shares no runtime state with
\* its source; its regiondata is null when the source's is null, the result
\* of the duplicate callback when the region type is registered and has one,
\* null when there is no such callback and the region data is temporary, and
\* otherwise a separate copy; it never aliases the source's regiondata, and
\* the source region is left unchanged.
C24_RegionCopyIsSeparate ==
  [][\A duplicate \in BOOLEAN :
       CopyArea(duplicate) =>
         /\ screen'.areabase[1] = screen.areabase[1]
         /\ Len(screen'.areabase[2].spacedata) = Len(screen.areabase[1].spacedata)
         /\ \A p \in CopyPairs(screen, screen') : RegionCopyOk(p, duplicate)]_vars

\* A copied area in which a region of a region type that is not registered
\* holds a copy of its source's region data.
C24_Witness ==
  /\ Len(screen.areabase) = 2
  /\ \E p \in CopyPairs(screen, screen) :
       /\ ~BKE_regiontype_from_id(p.st, p.src.regiontype)
       /\ p.src.regiondata # NULL /\ ~IsTemp(p.src)
       /\ p.new.regiondata \notin {NULL, p.src.regiondata}

-----------------------------------------------------------------------------
(* Merging of double vertices *)

\* The first vertex of the list vs with the coordinates of the vertex at a.
FirstAt(vs, a) ==
  LET v == VertAt(vs, a)
      i == Min({k \in 1..Len(vs) : vs[k].x = v.x /\ vs[k].y = v.y})
  IN vs[i].adr

DoubleVerts(vs) ==
  {p \in (1..Len(vs)) \X (1..Len(vs)) :
     p[1] < p[2] /\ vs[p[1]].x = vs[p[2]].x /\ vs[p[1]].y = vs[p[2]].y}

\* C25: BKE_screen_remove_double_scrverts on a screen in which every vertex
\* has newv null leaves no two vertices with the same coordinates, and every
\* edge endpoint and area corner refers to the first vertex of the list with
\* the coordinates it had, which is still in the list and not freed.
C25_DoublesMergedIntoFirst ==
  [][(pc' = "dverts" /\ \A i \in 1..Len(screen.vertbase) : screen.vertbase[i].newv = NULL) =>
       LET vs == screen.vertbase
           va == {screen'.vertbase[i].adr : i \in 1..Len(screen'.vertbase)}
       IN /\ DoubleVerts(screen'.vertbase) = {}
          /\ va \cap freed' = {}
          /\ Len(screen'.edgebase) = Len(screen.edgebase)
          /\ \A i \in 1..Len(screen.edgebase) :
               /\ {screen'.edgebase[i].v1, screen'.edgebase[i].v2}
                    = {FirstAt(vs, screen.edgebase[i].v1), FirstAt(vs, screen.edgebase[i].v2)}
               /\ {screen'.edgebase[i].v1, screen'.edgebase[i].v2} \subseteq va
          /\ \A j \in 1..Len(screen.areabase) :
               LET a == screen.areabase[j]
                   b == screen'.areabase[j]
               IN /\ <<b.v1, b.v2, b.v3, b.v4>>
                       = <<FirstAt(vs, a.v1), FirstAt(vs, a.v2), FirstAt(vs, a.v3), FirstAt(vs, a.v4)>>
                  /\ {b.v1, b.v2, b.v3, b.v4} \subseteq va]_vars

\* Double vertices of neighbouring areas were merged in a screen whose vertex
\* list ran against the address order, so that the vertex kept is not the
\* one with the lowest address.
C25_Witness ==
  /\ pc = "dverts"
  /\ Len(screen.areabase) > 1
  /\ freed # {}
  /\ \E a \in freed : \E i \in 1..Len(screen.vertbase) : screen.vertbase[i].adr > a
  /\ DoubleVerts(screen.vertbase) = {}

-----------------------------------------------------------------------------
(* Pruning of unused edges and vertices *)

FlagsClear(scr) ==
  /\ \A i \in 1..Len(scr.edgebase) : scr.edgebase[i].flag = 0
  /\ \A i \in 1..Len(scr.vertbase) : scr.vertbase[i].flag = 0

\* The edges of scr (by address) whose endpoints are those of a side of an
\* area, and the vertices that are an endpoint of an edge.
SideEdges(scr) ==
  {se.adr : se \in {e \in Range(scr.edgebase) :
                      \E j \in 1..Len(scr.areabase) :
                        \E side \in AreaSides(scr.areabase[j]) :
                          {e.v1, e.v2} = {side[1], side[2]}}}
EdgeVerts(scr) ==
  {sv.adr : sv \in {v \in Range(scr.vertbase) :
                      \E e \in Range(scr.edgebase) : v.adr \in {e.v1, e.v2}}}

Adrs(lb) == {lb[i].adr : i \in 1..Len(lb)}

PrunedEdgesStep == pc' = "uedges" /\ FlagsClear(screen)
PrunedVertsStep == pc' \in {"uverts", "uedges_uverts"} /\ FlagsClear(screen)

\* C26 as claimed: with all flags 0 on entry, remove_unused_scredges removes
\* exactly the edges that are a side of no area, remove_unused_scrverts
\* exactly the vertices that are an endpoint of no edge, both leave flag 0 on
\* what survives, and a second run of either removes nothing.
C26_PruneExactlyUnused ==
  [][/\ PrunedEdgesStep =>
          /\ Adrs(screen'.edgebase) = SideEdges(screen)
          /\ FlagsClear(screen')
          /\ BKE_screen_remove_unused_scredges(screen').scr = screen'
     /\ PrunedVertsStep =>
          /\ Adrs(screen'.vertbase) = EdgeVerts(screen)
          /\ FlagsClear(screen')
          /\ BKE_screen_remove_unused_scrverts(screen').scr = screen']_vars

\* The edges of scr that are the first of the list with their endpoints.
FirstOfDoubles(scr) ==
  {scr.edgebase[i].adr : i \in {k \in 1..Len(scr.edgebase) :
     \A h \in 1..(k - 1) :
       {scr.edgebase[h].v1, scr.edgebase[h].v2} # {scr.edgebase[k].v1, scr.edgebase[k].v2}}}

\* C26 as amended: with all flags 0 on entry, remove_unused_scredges keeps
\* exactly the edges that BKE_screen_find_edge returns for a side of an area:
\* it removes the edges that are a side of no area and, of several edges with
\* the same endpoints, all but the first; remove_unused_scrverts removes
\* exactly the vertices that are an endpoint of no edge; both leave flag 0 on
\* what survives, and a second run of either removes nothing.
C26_PruneUnusedAndDoubles ==
  [][/\ PrunedEdgesStep =>
          /\ Adrs(screen'.edgebase) = SideEdges(screen) \cap FirstOfDoubles(screen)
          /\ FlagsClear(screen')
          /\ BKE_screen_remove_unused_scredges(screen').scr = screen'
     /\ PrunedVertsStep =>
          /\ Adrs(screen'.vertbase) = EdgeVerts(screen)
          /\ FlagsClear(screen')
          /\ BKE_screen_remove_unused_scrverts(screen').scr = screen']_vars

\* remove_unused_scredges removed an edge of a screen of several areas whose
\* double vertices had been merged, and remove_unused_scrverts ran on the
\* result.
C26_Witness ==
  /\ pc = "uedges_uverts"
  /\ Len(screen.areabase) > 1
  /\ \E a \in freed : a > EdgeAdr(0) /\ a < AreaAdr(1)
  /\ \E a \in freed : a < EdgeAdr(0)
  /\ Len(screen.edgebase) = 3 * Len(screen.areabase) + 1

-----------------------------------------------------------------------------
(* Null region data of a 3D viewport *)

\* C27: reading a 3D viewport area never goes through a null regiondata: the
\* read does not crash, and a window region of the area whose regiondata
\* resolved to null ends the read-data stage with a RegionView3D allocated by
\* BKE_screen_view3d_do_versions_250.
C27_NullRegiondataNotDereferenced ==
  /\ pc # "crash"
  /\ pc = "read" =>
       \A p \in TempPairs :
         (p.patch /\ ~IsTemp(p.old) /\ newdataadr(file, vorder, p.old.regiondata) = NULL) =>
           /\ p.new.regiondata \in heap
           /\ p.new.regiondata \notin {New(b) : b \in Range(file.blocks)}

-----------------------------------------------------------------------------
(* Frame cache limit *)

\* C30: with no memory limit the cache never holds more than
\* PLAY_FRAME_CACHE_MAX frames, neither after the initial fill nor after a
\* round of playback, and the frame on display is never the one evicted.
C30_CacheWithinLimit ==
  (play.cache.memory_limit = 0
   /\ ((pc = "build" /\ Len(play.picsbase) = play.totframes) \/ pc = "play")) =>
    /\ play.cache.pics_len <= PLAY_FRAME_CACHE_MAX
    /\ Len(play.cache.pics) = play.cache.pics_len
    /\ play.keep \notin play.evicted


-----------------------------------------------------------------------------
(* Properties of the window manager's draw pass *)

\* C28: software cursor hand-over.  In a pass of wm_draw_update, a window
\* whose most recent draw drew the software cursor and which no longer
\* needs it is redrawn, and after the pass g_software_cursor.winid is not
\* that window's id; and the state recorded for a window is cleared only
\* by drawing that window, never by drawing another window that does not
\* need the software cursor.
C28_CursorHandOver ==
  [][wm'.fresh =>
       \A w \in 1..Len(wm.windows) :
         LET win == wm.windows[w]
             after == wm'.windows[w]
         IN /\ (win.cursor_drawn /\ ~win.needed) =>
                 (after.drew /\ wm'.cursor.winid # win.winid)
            /\ (wm.cursor.winid = win.winid /\ wm'.cursor.winid # win.winid) =>
                 \/ after.drew
                 \/ \E v \in 1..Len(wm.windows) :
                      v # w /\ wm'.windows[v].drew /\ wm.windows[v].needed]_vars

\* The regions of the areas and the menus of a window that are visible and
\* tagged for a redraw.
VisibleTagged(win) ==
  {[kind |-> "region", i |-> i] :
     i \in {j \in 1..Len(win.regions) : win.regions[j].visible /\ win.regions[j].do_draw}}
  \cup
  {[kind |-> "menu", i |-> i] :
     i \in {j \in 1..Len(win.menus) : win.menus[j].visible /\ win.menus[j].do_draw}}

\* The screen's draw flags are all clear.
ScreenFlagsClear(win) ==
  ~win.do_draw /\ ~win.do_draw_gesture /\ ~win.do_draw_paintcursor /\ ~win.do_draw_drag

\* Nothing but the draw flags asks for a redraw of the window: no refresh
\* and no gizmo is pending.
NothingPending(win) ==
  ~win.do_refresh /\ \A i \in 1..Len(win.regions) : ~win.regions[i].gz_do_draw

====
